---- MODULE Spec2Model ----
(***************************************************************************)
(* Model of the tilegraphics rendering engine: the dirty-tile grid, the    *)
(* object tree (Rectangle, Layer, Line), invalidation, per-tile painting   *)
(* and Engine.Display writing tiles to a Displayer.                         *)
(*                                                                         *)
(* Sources modelled: engine.go (Engine), object-rectangle.go (Rectangle),  *)
(* unnamed/part_006 (Layer, the revision that has NewLine and the          *)
(* translucent path), unnamed/part_004 (Line), unnamed/part_005 (Blend,    *)
(* gamma codec), imagescreen/screen.go (the Displayer used by the tests).  *)
(***************************************************************************)
EXTENDS Integers, Sequences, FiniteSets, TLC

VARIABLES
    size,        \* <<width, height>> reported by display.Size()
    cleanTiles,  \* Engine.cleanTiles : [][]bool
    objs,        \* arena of Layer / Rectangle / Line objects; objs[RootId] is Engine.root
    tile,        \* Engine.tile, the tile re-used for all root tiles
    tilePool,    \* Engine.tilePool, free list of tiles
    nalloc,      \* number of tiles getTile has allocated so far (return &tile{})
    display,     \* pixels held by the Displayer (imagescreen.Screen)
    calls,       \* Displayer calls issued by the last operation, in order
    lastOp,      \* name of the last operation
    lastMut,     \* name of the last operation other than Display
    lastObj,     \* object that operation created or changed (0: none)
    lastFail,    \* tile origins whose write failed during the last Display
    moves,       \* number of Move and SetBackgroundColor calls so far
    displays,    \* number of Display calls so far
    codec        \* the call of the colour codec made on its own: [op, in, out]

vars == <<size, cleanTiles, objs, tile, tilePool, nalloc, display, calls,
          lastOp, lastMut, lastObj, lastFail, moves, displays, codec>>

-----------------------------------------------------------------------------
(* Program constants and model bounds *)

TileSize == 8

MaxObjects == 2
MaxMoves == 1
MaxDisplays == 2

RootId == 1
NilId == 0

-----------------------------------------------------------------------------
(* Integer helpers: Go semantics *)

Abs(a) == IF a < 0 THEN -a ELSE a

\* Go integer division truncates toward zero.
Quot(a, b) ==
    LET q == Abs(a) \div Abs(b)
    IN IF (a < 0) # (b < 0) THEN -q ELSE q

\* int16 wrap-around.
I16(v) == ((v + 32768) % 65536) - 32768

\* uint8 conversion.
U8(v) == v % 256

-----------------------------------------------------------------------------
(* Colours: color.RGBA as <<R, G, B, A>> *)

Black == <<0, 0, 0, 255>>
ZeroColor == <<0, 0, 0, 0>>
Yellow == <<255, 255, 0, 255>>
Orange == <<255, 150, 0, 255>>
Grey == <<50, 50, 50, 255>>
TransYellow == <<200, 200, 0, 200>>
TransRed == <<100, 0, 0, 100>>
White == <<255, 255, 255, 255>>

decodeGamma(component) == component * component

\* Variant of encodeGamma with four correction rounds instead of five.
encodeGammaFourRounds(x) ==
    IF x = 0 THEN 0
    ELSE LET a0 == 32
             a1 == (a0 + (x \div a0)) \div 2
             a2 == (a1 + (x \div a1)) \div 2
             a3 == (a2 + (x \div a2)) \div 2
             a4 == (a3 + (x \div a3)) \div 2
         IN U8(a4)

encodeGamma(x) ==
    IF x = 0 THEN 0
    ELSE LET a0 == 32
             a1 == (a0 + (x \div a0)) \div 2
             a2 == (a1 + (x \div a1)) \div 2
             a3 == (a2 + (x \div a2)) \div 2
             a4 == (a3 + (x \div a3)) \div 2
             a5 == (a4 + (x \div a4)) \div 2
         IN U8(a5)

\* The values of a by which encodeGamma(x) divides x, in order.
encodeGammaDivisors(x) ==
    IF x = 0 THEN <<>>
    ELSE LET a0 == 32
             a1 == (a0 + (x \div a0)) \div 2
             a2 == (a1 + (x \div a1)) \div 2
             a3 == (a2 + (x \div a2)) \div 2
             a4 == (a3 + (x \div a3)) \div 2
         IN <<a0, a1, a2, a3, a4>>

\* Variant of Blend that scales the bottom colour by (255 - A) / 256, as
\* ApplyAlpha scales by alpha / 256.
BlendDiv256(bottom, top) ==
    << encodeGamma(((decodeGamma(bottom[1]) * (255 - top[4])) \div 256) + decodeGamma(top[1])),
       encodeGamma(((decodeGamma(bottom[2]) * (255 - top[4])) \div 256) + decodeGamma(top[2])),
       encodeGamma(((decodeGamma(bottom[3]) * (255 - top[4])) \div 256) + decodeGamma(top[3])),
       255 >>

\* Variant of Blend that adds the bottom colour without scaling it by the
\* transparency of the top colour.
BlendUnscaled(bottom, top) ==
    << encodeGamma(decodeGamma(bottom[1]) + decodeGamma(top[1])),
       encodeGamma(decodeGamma(bottom[2]) + decodeGamma(top[2])),
       encodeGamma(decodeGamma(bottom[3]) + decodeGamma(top[3])),
       255 >>

\* The value of a that encodeGamma(x) has computed when it returns uint8(a).
encodeGammaWide(x) ==
    IF x = 0 THEN 0
    ELSE LET a0 == 32
             a1 == (a0 + (x \div a0)) \div 2
             a2 == (a1 + (x \div a1)) \div 2
             a3 == (a2 + (x \div a2)) \div 2
             a4 == (a3 + (x \div a3)) \div 2
             a5 == (a4 + (x \div a4)) \div 2
         IN a5

BlendChannel(b, t, alpha) ==
    encodeGamma(((decodeGamma(b) * (255 - alpha)) \div 255) + decodeGamma(t))

Blend(bottom, top) ==
    << BlendChannel(bottom[1], top[1], top[4]),
       BlendChannel(bottom[2], top[2], top[4]),
       BlendChannel(bottom[3], top[3], top[4]),
       255 >>

ApplyAlpha(c, alpha) ==
    << encodeGamma((decodeGamma(c[1]) * alpha) \div 256),
       encodeGamma((decodeGamma(c[2]) * alpha) \div 256),
       encodeGamma((decodeGamma(c[3]) * alpha) \div 256),
       U8((c[4] * alpha) \div 256) >>

-----------------------------------------------------------------------------
(* Tiles *)

TileIdx == 0 .. (TileSize * TileSize - 1)

\* &tile{} : a zero-valued tile
ZeroTile == [p \in TileIdx |-> ZeroColor]

-----------------------------------------------------------------------------
(* Objects *)

\* Rectangle.boundingBox, Layer.boundingBox, Line.boundingBox
boundingBox(o) ==
    IF o.kind = "line"
    THEN LET ya == IF o.y1 > o.y2 THEN o.y2 ELSE o.y1
             yb == IF o.y1 > o.y2 THEN o.y1 ELSE o.y2
         IN <<o.x1, ya, I16(o.x2 + 1), I16(yb + 1)>>
    ELSE <<o.x1, o.y1, o.x2, o.y2>>

\* The loop of Rectangle.absolutePos: add the origin of every layer from
\* `layer` up to the root.
RECURSIVE absoluteWalk(_, _, _, _)
absoluteWalk(os, layer, x, y) ==
    IF layer = NilId THEN <<x, y>>
    ELSE absoluteWalk(os, os[layer].parent,
                      I16(x + os[layer].x1), I16(y + os[layer].y1))

\* Rectangle.absolutePos for the rectangle of object id (a Rectangle, the
\* rect of a Layer, or the temporary Rectangle of Line.invalidate).  For a
\* layer's own rect the walk starts at the layer's parent; in the arena that
\* is os[id].parent in both cases.
absolutePos(os, id, x, y) == absoluteWalk(os, os[id].parent, x, y)

\* Rectangle.invalidate
invalidate(ct, os, id, x1, y1, x2, y2) ==
    LET pos == absolutePos(os, id, x1, y1)
        x == pos[1]
        y == pos[2]
        tX1 == Quot(x, TileSize)
        tY1 == Quot(y, TileSize)
        tX2 == Quot(I16(x + I16(x2 - x1) + TileSize), TileSize)
        tY2 == Quot(I16(y + I16(y2 - y1) + TileSize), TileSize)
        lenOuter == Cardinality(DOMAIN ct)
        lenInner == Cardinality(DOMAIN ct[0])
        tileY1 == IF tY1 < 0 THEN 0 ELSE tY1
        tileY2 == IF tY2 >= lenOuter THEN lenOuter ELSE tY2
        tileX1 == IF tX1 < 0 THEN 0 ELSE tX1
        tileX2 == IF tX2 >= lenInner THEN lenInner ELSE tX2
    IN [i \in DOMAIN ct |->
          [j \in DOMAIN ct[i] |->
              IF i >= tileY1 /\ i < tileY2 /\ j >= tileX1 /\ j < tileX2
              THEN FALSE
              ELSE ct[i][j]]]

-----------------------------------------------------------------------------
(* The Engine as a record of its fields, so that operations compose *)

Engine(sz, ct, os, t, pool, na) ==
    [size |-> sz, cleanTiles |-> ct, objs |-> os, tile |-> t,
     tilePool |-> pool, nalloc |-> na]

\* Variant of NewEngine whose grid also has a cell for a partial last tile
\* column and row.
NewEngineCeil(sz) ==
    Engine(sz,
           [i \in 0 .. (Quot(sz[1] + TileSize - 1, TileSize) - 1) |->
               [j \in 0 .. (Quot(sz[2] + TileSize - 1, TileSize) - 1) |-> FALSE]],
           <<[kind |-> "layer", parent |-> NilId, x1 |-> 0, y1 |-> 0,
              x2 |-> sz[1], y2 |-> sz[2], color |-> Black, objects |-> <<>>]>>,
           ZeroTile, <<>>, 0)

\* NewEngine: every flag false (needs redraw), root layer spanning the display
\* with black background, a fresh Engine.tile, an empty tile pool.
NewEngine(sz) ==
    Engine(sz,
           [i \in 0 .. (Quot(sz[1], TileSize) - 1) |->
               [j \in 0 .. (Quot(sz[2], TileSize) - 1) |-> FALSE]],
           << [kind |-> "layer", parent |-> NilId,
               x1 |-> 0, y1 |-> 0, x2 |-> sz[1], y2 |-> sz[2],
               color |-> Black, objects |-> <<>>] >>,
           ZeroTile, <<>>, 0)

\* append(l.objects, obj) for the object with the next free arena id
AppendObject(os, l, o) ==
    LET id == Len(os) + 1
    IN [Append(os, o) EXCEPT ![l].objects = Append(os[l].objects, id)]

\* Layer.SetBackgroundColor
SetBackgroundColor(e, l, background) ==
    LET os == [e.objs EXCEPT ![l].color = background]
        r == os[l]
    IN [e EXCEPT !.objs = os,
                 !.cleanTiles = invalidate(e.cleanTiles, os, l, r.x1, r.y1, r.x2, r.y2)]

\* Layer.NewRectangle
NewRectangle(e, l, x, y, width, height, c) ==
    LET r == [kind |-> "rect", parent |-> l,
              x1 |-> x, y1 |-> y, x2 |-> I16(x + width), y2 |-> I16(y + height),
              color |-> c, objects |-> <<>>]
        os == AppendObject(e.objs, l, r)
    IN [e EXCEPT !.objs = os,
                 !.cleanTiles = invalidate(e.cleanTiles, os, Len(os), r.x1, r.y1, r.x2, r.y2)]

\* Layer.NewLayer
NewLayer(e, l, x, y, width, height, background) ==
    LET child == [kind |-> "layer", parent |-> l,
                  x1 |-> x, y1 |-> y, x2 |-> I16(x + width), y2 |-> I16(y + height),
                  color |-> background, objects |-> <<>>]
        os == AppendObject(e.objs, l, child)
    IN [e EXCEPT !.objs = os,
                 !.cleanTiles = invalidate(e.cleanTiles, os, Len(os),
                                           child.x1, child.y1, child.x2, child.y2)]

\* Line.invalidate: the whole bounding box, through a temporary Rectangle
\* that has the line's parent.
LineInvalidate(ct, os, id) ==
    LET bb == boundingBox(os[id])
    IN invalidate(ct, os, id, bb[1], bb[2], bb[3], bb[4])

\* Layer.NewLine
NewLine(e, l, xa, ya, xb, yb, stroke) ==
    LET swap == xa > xb
        line == [kind |-> "line", parent |-> l,
                 x1 |-> IF swap THEN xb ELSE xa, y1 |-> IF swap THEN yb ELSE ya,
                 x2 |-> IF swap THEN xa ELSE xb, y2 |-> IF swap THEN ya ELSE yb,
                 color |-> stroke, objects |-> <<>>]
        os == AppendObject(e.objs, l, line)
    IN [e EXCEPT !.objs = os,
                 !.cleanTiles = LineInvalidate(e.cleanTiles, os, Len(os))]

\* Rectangle.invalidateMiddleBlock
invalidateMiddleBlock(ct, os, id, xA, maxY1, xB, minY2) ==
    IF xA > xB
    THEN invalidate(ct, os, id, xB, maxY1, xA, minY2)
    ELSE invalidate(ct, os, id, xA, maxY1, xB, minY2)

\* The invalidations of Rectangle.Move, before the new coordinates are stored.
MoveInvalidate(ct, os, id, newX1, newY1, newX2, newY2) ==
    LET r == os[id]
    IN IF newX1 > r.x2 \/ newY1 > r.y2 \/ newX2 < r.x1 \/ newY2 < r.y1
       THEN \* Not overlapping: the old and the new rectangle.
            invalidate(invalidate(ct, os, id, r.x1, r.y1, r.x2, r.y2),
                       os, id, newX1, newY1, newX2, newY2)
       ELSE LET maxY1 == IF newY1 > r.y1 THEN newY1 ELSE r.y1
                minY2 == IF newY2 < r.y2 THEN newY2 ELSE r.y2
                c1 == IF newX1 # r.x1
                      THEN invalidateMiddleBlock(ct, os, id, newX1, maxY1, r.x1, minY2)
                      ELSE ct
                c2 == IF newX2 # r.x2
                      THEN invalidateMiddleBlock(c1, os, id, newX2, maxY1, r.x2, minY2)
                      ELSE c1
                c3 == IF newY1 # r.y1
                      THEN IF newY1 > r.y1
                           THEN invalidate(c2, os, id, r.x1, r.y1, r.x2, newY1)
                           ELSE invalidate(c2, os, id, newX1, newY1, newX2, r.y1)
                      ELSE c2
                c4 == IF newY2 # r.y2
                      THEN IF newY2 > r.y2
                           THEN invalidate(c3, os, id, newX1, r.y2, newX2, newY2)
                           ELSE invalidate(c3, os, id, r.x1, newY2, r.x2, r.y2)
                      ELSE c3
            IN c4

\* Rectangle.Move
RectangleMove(e, id, x, y, width, height) ==
    LET newX1 == x
        newY1 == y
        newX2 == I16(x + width)
        newY2 == I16(y + height)
    IN [e EXCEPT !.cleanTiles = MoveInvalidate(e.cleanTiles, e.objs, id,
                                               newX1, newY1, newX2, newY2),
                 !.objs = [e.objs EXCEPT ![id].x1 = newX1, ![id].y1 = newY1,
                                         ![id].x2 = newX2, ![id].y2 = newY2]]

\* Variant of Layer.Move that leaves out the invalidation of the old extent.
LayerMoveRectOnly(e, id, x, y, width, height) ==
    RectangleMove(e, id, x, y, width, height)

\* Layer.Move
LayerMove(e, id, x, y, width, height) ==
    LET r == e.objs[id]
        e1 == IF x # r.x1 \/ y # r.y1
              THEN [e EXCEPT !.cleanTiles =
                        invalidate(e.cleanTiles, e.objs, id, r.x1, r.y1, r.x2, r.y2)]
              ELSE e
    IN RectangleMove(e1, id, x, y, width, height)

-----------------------------------------------------------------------------
(* Painting into a tile.  A tile is a function TileIdx -> colour, in row    *)
(* major order: index y*TileSize+x.                                         *)

PX(p) == p % TileSize
PY(p) == p \div TileSize

\* Rectangle.paint
RectanglePaint(r, t, tileX, tileY) ==
    LET ax1 == I16(r.x1 - tileX)
        ay1 == I16(r.y1 - tileY)
        ax2 == I16(r.x2 - tileX)
        ay2 == I16(r.y2 - tileY)
        x1 == IF ax1 < 0 THEN 0 ELSE ax1
        y1 == IF ay1 < 0 THEN 0 ELSE ay1
        x2 == IF ax2 > TileSize THEN TileSize ELSE ax2
        y2 == IF ay2 > TileSize THEN TileSize ELSE ay2
    IN [p \in TileIdx |->
          IF PX(p) >= x1 /\ PX(p) < x2 /\ PY(p) >= y1 /\ PY(p) < y2
          THEN r.color
          ELSE t[p]]

\* Line.paintPixel applied to the pixel it addresses
paintPixel(l, c, weight) == Blend(c, ApplyAlpha(l.color, weight))

\* Line.paint, the vertical and horizontal cases: a span of the tile, written
\* directly when the colour is opaque and blended otherwise.
LinePaintSpan(l, t, tileX, tileY) ==
    IF l.x1 = l.x2
    THEN LET lo == IF l.y1 > l.y2 THEN l.y2 ELSE l.y1
             hi == IF l.y1 > l.y2 THEN l.y1 ELSE l.y2
             x == I16(l.x1 - tileX)
             b1 == I16(lo - tileY)
             b2 == I16(hi - tileY)
             y1 == IF b1 < 0 THEN 0 ELSE b1
             y2 == IF b2 >= TileSize THEN TileSize - 1 ELSE b2
         IN IF x < 0 \/ x >= TileSize THEN t
            ELSE [p \in TileIdx |->
                    IF PX(p) = x /\ PY(p) >= y1 /\ PY(p) <= y2
                    THEN IF l.color[4] = 255 THEN l.color ELSE Blend(t[p], l.color)
                    ELSE t[p]]
    ELSE LET lo == IF l.x1 > l.x2 THEN l.x2 ELSE l.x1
             hi == IF l.x1 > l.x2 THEN l.x1 ELSE l.x2
             y == I16(l.y1 - tileY)
             b1 == I16(lo - tileX)
             b2 == I16(hi - tileX)
             x1 == IF b1 < 0 THEN 0 ELSE b1
             x2 == IF b2 >= TileSize THEN TileSize - 1 ELSE b2
         IN IF y < 0 \/ y >= TileSize THEN t
            ELSE [p \in TileIdx |->
                    IF PY(p) = y /\ PX(p) >= x1 /\ PX(p) <= x2
                    THEN IF l.color[4] = 255 THEN l.color ELSE Blend(t[p], l.color)
                    ELSE t[p]]

\* Line.paint, the default case (Wu's algorithm entered at the tile offset).
\* Every step of the loop paints two distinct pixels and different steps
\* paint different columns (rows), so each pixel is painted at most once.
\* The int32 values cannot overflow: an int16 difference shifted left by 16
\* fits, and a step index times the increment is bounded by it.
LinePaintWu(l, t, tileX, tileY) ==
    LET ax1 == I16(l.x1 - tileX)
        ax2 == I16(l.x2 - tileX)
        ay1 == I16(l.y1 - tileY)
        ay2 == I16(l.y2 - tileY)
        width == I16(l.x2 - l.x1)
        height == Abs(I16(l.y2 - l.y1))
    IN IF width > height
       THEN LET yIncrementQ16 == Quot((I16(ay2 - ay1) * 65536), I16(ax2 - ax1))
                xStart == ax1
                x1 == IF ax1 < 0 THEN 0 ELSE ax1
                x2 == IF ax2 >= TileSize THEN TileSize - 1 ELSE ax2
            IN [p \in TileIdx |->
                  IF PX(p) >= x1 /\ PX(p) <= x2
                  THEN LET yQ16 == (I16(PX(p) - xStart) * yIncrementQ16)
                           y == I16(ay1 + I16(yQ16 \div 65536))
                           w == U8(yQ16 \div 256)
                       IN IF PY(p) = y THEN paintPixel(l, t[p], 255 - w)
                          ELSE IF PY(p) = I16(y + 1) THEN paintPixel(l, t[p], w)
                          ELSE t[p]
                  ELSE t[p]]
       ELSE LET swap == ay1 > ay2
                by1 == IF swap THEN ay2 ELSE ay1
                by2 == IF swap THEN ay1 ELSE ay2
                bx1 == IF swap THEN ax2 ELSE ax1
                bx2 == IF swap THEN ax1 ELSE ax2
                xIncrementQ16 == Quot((I16(bx2 - bx1) * 65536), I16(by2 - by1))
                yStart == by1
                y1 == IF by1 < 0 THEN 0 ELSE by1
                y2 == IF by2 >= TileSize THEN TileSize - 1 ELSE by2
            IN [p \in TileIdx |->
                  IF PY(p) >= y1 /\ PY(p) <= y2
                  THEN LET xQ16 == (I16(PY(p) - yStart) * xIncrementQ16)
                           x == I16(bx1 + I16(xQ16 \div 65536))
                           w == U8(xQ16 \div 256)
                       IN IF PX(p) = x THEN paintPixel(l, t[p], 255 - w)
                          ELSE IF PX(p) = I16(x + 1) THEN paintPixel(l, t[p], w)
                          ELSE t[p]
                  ELSE t[p]]

\* Variant of LinePaint whose Wu steps are counted from the first column
\* (row) of the line inside the tile instead of from the line's start.
LinePaintFromTileEdge(l, t, tileX, tileY) ==
    IF l.x1 = l.x2 \/ l.y1 = l.y2
    THEN LinePaintSpan(l, t, tileX, tileY)
    ELSE LinePaintWu([l EXCEPT !.x1 = IF I16(l.x2 - l.x1) > Abs(I16(l.y2 - l.y1)) /\ l.x1 < tileX
                                      THEN tileX ELSE l.x1],
                     t, tileX, tileY)

\* Line.paint
LinePaint(l, t, tileX, tileY) ==
    IF l.x1 = l.x2 \/ l.y1 = l.y2
    THEN LinePaintSpan(l, t, tileX, tileY)
    ELSE LinePaintWu(l, t, tileX, tileY)

\* Variant of getTile that leaves the tile it returns in the pool.
getTileNoPop(st) ==
    IF Len(st.pool) # 0
    THEN [buf |-> st.pool[Len(st.pool)],
          pool |-> st.pool,
          nalloc |-> st.nalloc]
    ELSE [buf |-> [id |-> st.nalloc + 1, px |-> ZeroTile],
          pool |-> st.pool,
          nalloc |-> st.nalloc + 1]

\* Engine.getTile: the last tile of the pool, or a new zero tile.  Every tile
\* getTile allocates gets an identity (id), by which the pool is followed.
getTile(st) ==
    IF Len(st.pool) # 0
    THEN [buf |-> st.pool[Len(st.pool)],
          pool |-> SubSeq(st.pool, 1, Len(st.pool) - 1),
          nalloc |-> st.nalloc]
    ELSE [buf |-> [id |-> st.nalloc + 1, px |-> ZeroTile],
          pool |-> st.pool,
          nalloc |-> st.nalloc + 1]

\* Variant of putTile that drops the tile.
putTileDrop(st, buf) == st

\* Engine.putTile
putTile(st, buf) == [st EXCEPT !.pool = Append(st.pool, buf)]

\* The test of Layer.paintObjects that skips an object
SkipObject(bb, tileX, tileY) ==
    \/ bb[1] > I16(tileX + TileSize)
    \/ bb[2] > I16(tileY + TileSize)
    \/ bb[3] <= tileX
    \/ bb[4] <= tileY

\* Variant of LayerBounds that does not clip at the right and bottom edges of
\* the layer.
LayerBoundsNoClip(l, tileX, tileY) ==
    [x1 |-> IF tileX < 0 THEN -tileX ELSE 0,
     y1 |-> IF tileY < 0 THEN -tileY ELSE 0,
     x2 |-> TileSize,
     y2 |-> TileSize]

\* The part of the tile that lies inside the layer (Layer.paint, "Determine
\* the bounds of the tile that should be painted to"); tileX, tileY are in
\* the layer's coordinate system.
LayerBounds(l, tileX, tileY) ==
    LET w == I16(l.x2 - l.x1)
        h == I16(l.y2 - l.y1)
    IN [x1 |-> IF tileX < 0 THEN -tileX ELSE 0,
        y1 |-> IF tileY < 0 THEN -tileY ELSE 0,
        x2 |-> IF I16(tileX + TileSize) > w THEN I16(w - tileX) ELSE TileSize,
        y2 |-> IF I16(tileY + TileSize) > h THEN I16(h - tileY) ELSE TileSize]

\* Variant of LayerComposite that always takes the fast path.
LayerCompositeCopy(l, t, subtile, b) ==
    [p \in TileIdx |->
        IF PX(p) >= b.x1 /\ PX(p) < b.x2 /\ PY(p) >= b.y1 /\ PY(p) < b.y2
        THEN subtile[p]
        ELSE t[p]]

\* The last loops of Layer.paint: paint the underlying tile using the
\* temporary tile, copying when the layer is opaque and blending otherwise.
LayerComposite(l, t, subtile, b) ==
    [p \in TileIdx |->
        IF PX(p) >= b.x1 /\ PX(p) < b.x2 /\ PY(p) >= b.y1 /\ PY(p) < b.y2
        THEN IF l.color[4] = 255 THEN subtile[p] ELSE Blend(t[p], subtile[p])
        ELSE t[p]]

RECURSIVE LayerPaint(_, _, _, _, _)
RECURSIVE objectPaint(_, _, _, _, _)
RECURSIVE paintObjects(_, _, _, _, _, _)

\* Variant of paintObjects that paints the objects of the layer from the last
\* to the first.
RECURSIVE paintObjectsBackwards(_, _, _, _, _, _)
paintObjectsBackwards(os, ps, id, k, tileX, tileY) ==
    IF k > Len(os[id].objects) THEN ps
    ELSE IF SkipObject(boundingBox(os[os[id].objects[Len(os[id].objects) + 1 - k]]),
                       tileX, tileY)
    THEN paintObjectsBackwards(os, ps, id, k + 1, tileX, tileY)
    ELSE paintObjectsBackwards(os, objectPaint(os, ps,
                                               os[id].objects[Len(os[id].objects) + 1 - k],
                                               tileX, tileY),
                               id, k + 1, tileX, tileY)

\* The identities of the tiles of a pool, in order
PoolIds(pool) == [k \in 1 .. Len(pool) |-> pool[k].id]

\* obj.paint(t, tileX, tileY) for the object with arena id o.  ps is the
\* state painting works on: the tile t painted to, the engine's tile pool,
\* and the log of the getTile and putTile calls made so far, each with the
\* identity of the tile and the pool it left.
objectPaint(os, ps, o, tileX, tileY) ==
    IF os[o].kind = "layer" THEN LayerPaint(os, ps, o, tileX, tileY)
    ELSE IF os[o].kind = "line"
    THEN [ps EXCEPT !.t = LinePaint(os[o], ps.t, tileX, tileY)]
    ELSE [ps EXCEPT !.t = RectanglePaint(os[o], ps.t, tileX, tileY)]

\* Layer.paintObjects, from the k-th object of layer id on; tileX, tileY are
\* already in the layer's coordinate system.
paintObjects(os, ps, id, k, tileX, tileY) ==
    IF k > Len(os[id].objects) THEN ps
    ELSE IF SkipObject(boundingBox(os[os[id].objects[k]]), tileX, tileY)
    THEN paintObjects(os, ps, id, k + 1, tileX, tileY)
    ELSE paintObjects(os, objectPaint(os, ps, os[id].objects[k], tileX, tileY),
                      id, k + 1, tileX, tileY)

\* Variant of LayerBackground whose loop over x stops one pixel early.
LayerBackgroundShort(l, px) ==
    [p \in DOMAIN px |-> IF PX(p) < TileSize - 1 THEN l.color ELSE px[p]]

\* Layer.paint, "Paint the background": the two loops set every pixel of
\* the subtile px to the layer's background colour.
LayerBackground(l, px) == [p \in DOMAIN px |-> l.color]

\* Layer.paint up to the background: a tile from the pool, filled with the
\* layer's background colour.
LayerSubtile(l, ps) ==
    [t |-> LayerBackground(l, getTile(ps).buf.px),
     pool |-> getTile(ps).pool,
     nalloc |-> getTile(ps).nalloc,
     log |-> Append(ps.log, <<"getTile", getTile(ps).buf.id, PoolIds(getTile(ps).pool)>>)]

\* Layer.paint after paintObjects: the subtile is painted on the tile inside
\* the layer's bounds and given back to the pool.
LayerFinish(l, ps, lx, ly, painted) ==
    putTile([t |-> LayerComposite(l, ps.t, painted.t, LayerBounds(l, lx, ly)),
             pool |-> painted.pool,
             nalloc |-> painted.nalloc,
             log |-> Append(painted.log,
                            <<"putTile", getTile(ps).buf.id,
                              Append(PoolIds(painted.pool), getTile(ps).buf.id)>>)],
            [id |-> getTile(ps).buf.id, px |-> painted.t])

\* Layer.paint: draws layer id (and nothing outside the layer) to the tile
\* ps.t at coordinates tileX, tileY of the parent's coordinate system.
LayerPaint(os, ps, id, tileX, tileY) ==
    LayerFinish(os[id], ps, I16(tileX - os[id].x1), I16(tileY - os[id].y1),
                paintObjects(os, LayerSubtile(os[id], ps), id, 1,
                             I16(tileX - os[id].x1), I16(tileY - os[id].y1)))

-----------------------------------------------------------------------------
(* The Displayer (imagescreen.Screen): an image of size[1] x size[2] pixels, *)
(* stored in row major order, all zero when created.                         *)

NewScreen(sz) == [y \in 0 .. (sz[2] - 1) |-> [x \in 0 .. (sz[1] - 1) |-> ZeroColor]]

\* The loop over pixelY of Screen.FillRectangleWithBuffer, from pixelY on:
\* each row of the rectangle is set from the buffer; Set ignores pixels
\* outside the image.
RECURSIVE FillRows(_, _, _, _, _, _, _)
FillRows(px, x, y, width, height, buffer, pixelY) ==
    IF pixelY >= height
    THEN px
    ELSE FillRows(IF (y + pixelY) \in DOMAIN px
                  THEN [px EXCEPT ![y + pixelY] =
                           [pixelX \in DOMAIN @ |->
                               IF pixelX >= x /\ pixelX < x + width
                               THEN buffer[pixelY * width + (pixelX - x)]
                               ELSE @[pixelX]]]
                  ELSE px,
                  x, y, width, height, buffer, pixelY + 1)

\* Screen.FillRectangleWithBuffer with a buffer of the right length.
FillRectangleWithBuffer(px, sz, x, y, width, height, buffer) ==
    FillRows(px, x, y, width, height, buffer, 0)

\* len(buffer) != int(width*height)
BufferSizeMismatch(width, height, buffer) ==
    Cardinality(DOMAIN buffer) # width * height

-----------------------------------------------------------------------------
(* Engine.Display *)

\* Variant of WriteTile that sends the tile a second time when the Displayer
\* returned an error.
WriteTileRetry(st, row, col, fail, r) ==
    [e |-> [st.e EXCEPT !.cleanTiles[row][col] = TRUE,
                        !.tile = r.t,
                        !.tilePool = r.pool,
                        !.nalloc = r.nalloc],
     display |-> IF <<I16(row * TileSize), I16(col * TileSize)>> \notin fail
                 THEN FillRectangleWithBuffer(st.display, st.e.size,
                                              I16(row * TileSize), I16(col * TileSize),
                                              TileSize, TileSize, r.t)
                 ELSE st.display,
     calls |-> IF <<I16(row * TileSize), I16(col * TileSize)>> \in fail
               THEN st.calls \o << <<"FillRectangleWithBuffer", I16(row * TileSize),
                                     I16(col * TileSize), TileSize, TileSize>>,
                                   <<"FillRectangleWithBuffer", I16(row * TileSize),
                                     I16(col * TileSize), TileSize, TileSize>> >>
               ELSE Append(st.calls, <<"FillRectangleWithBuffer", I16(row * TileSize),
                                       I16(col * TileSize), TileSize, TileSize>>)]

\* Variant of WriteTile that sends the tile one tile further to the right.
WriteTileShifted(st, row, col, fail, r) ==
    [e |-> [st.e EXCEPT !.cleanTiles[row][col] = TRUE,
                        !.tile = r.t,
                        !.tilePool = r.pool,
                        !.nalloc = r.nalloc],
     display |-> FillRectangleWithBuffer(st.display, st.e.size,
                                         I16((row + 1) * TileSize), I16(col * TileSize),
                                         TileSize, TileSize, r.t),
     calls |-> Append(st.calls, <<"FillRectangleWithBuffer", I16((row + 1) * TileSize),
                                  I16(col * TileSize), TileSize, TileSize>>)]

\* Engine.Display for one cell that needs a redraw, r being the root layer
\* painted for it: the flag is set, and the tile is sent to the Displayer.
\* st holds the engine, the pixels of the Displayer and the calls made so far;
\* fail is the set of tile origins for which the Displayer returns an I/O
\* error (the write is lost; Display ignores the error).
WriteTile(st, row, col, fail, r) ==
    [e |-> [st.e EXCEPT !.cleanTiles[row][col] = TRUE,
                        !.tile = r.t,
                        !.tilePool = r.pool,
                        !.nalloc = r.nalloc],
     display |-> IF /\ <<I16(row * TileSize), I16(col * TileSize)>> \notin fail
                    /\ ~BufferSizeMismatch(TileSize, TileSize, r.t)
                 THEN FillRectangleWithBuffer(st.display, st.e.size,
                                              I16(row * TileSize), I16(col * TileSize),
                                              TileSize, TileSize, r.t)
                 ELSE st.display,
     calls |-> Append(st.calls, <<"FillRectangleWithBuffer", I16(row * TileSize),
                                  I16(col * TileSize), TileSize, TileSize>>)]

\* e.root.paint(e.tile, tileX, tileY) for the cell [row][col]
RootPaint(e, row, col) ==
    LayerPaint(e.objs, [t |-> e.tile, pool |-> e.tilePool, nalloc |-> e.nalloc,
                        log |-> <<>>],
               RootId, I16(row * TileSize), I16(col * TileSize))

\* Variant of DisplayCell that repaints the cell whatever its flag says.
DisplayCellNoSkip(st, row, col, fail) ==
    WriteTile(st, row, col, fail, RootPaint(st.e, row, col))

\* The body of the loops of Engine.Display for the cell [row][col].
DisplayCell(st, row, col, fail) ==
    IF st.e.cleanTiles[row][col]
    THEN st
    ELSE WriteTile(st, row, col, fail, RootPaint(st.e, row, col))

\* The inner loop of Engine.Display (over cleanTilesRow) from index col on.
RECURSIVE DisplayRow(_, _, _, _)
DisplayRow(st, row, col, fail) ==
    IF col >= Cardinality(DOMAIN st.e.cleanTiles[row])
    THEN st
    ELSE DisplayRow(DisplayCell(st, row, col, fail), row, col + 1, fail)

\* The outer loop of Engine.Display (over e.cleanTiles) from index row on.
RECURSIVE DisplayLoop(_, _, _)
DisplayLoop(st, row, fail) ==
    IF row >= Cardinality(DOMAIN st.e.cleanTiles)
    THEN st
    ELSE DisplayLoop(DisplayRow(st, row, 0, fail), row + 1, fail)

\* Variant of Display that never calls Displayer.Display.
DisplayNoFlush(e, px, fail) ==
    DisplayLoop([e |-> e, display |-> px, calls |-> <<>>], 0, fail)

\* Engine.Display: all tiles that need a redraw, then Displayer.Display once.
Display(e, px, fail) ==
    [DisplayLoop([e |-> e, display |-> px, calls |-> <<>>], 0, fail)
        EXCEPT !.calls = Append(@, <<"Display">>)]

-----------------------------------------------------------------------------
(* Inputs *)

\* Display sizes: a square grid of 2 x 2 tiles, and a wide one of 4 x 1
\* tiles with a partial last tile column and row.
Sizes == { <<16, 16>>, <<34, 9>> }

\* x, y, width, height
Boxes == { <<-3, -3, 8, 8>>, <<10, 4, 9, 6>>, <<12, 6, 9, 6>> }

\* x1, y1, x2, y2
LineEnds == { <<1, 2, 14, 7>>, <<12, 1, 9, 12>> }

RectColors == { Yellow, TransYellow }
LayerColors == { TransRed }
LineColors == { White }
\* Engine.SetBackgroundColor: "the alpha channel should be 100% (255)"
BackgroundColors == { Grey }

\* The layers and the rectangles that exist
Layers == { i \in DOMAIN objs : objs[i].kind = "layer" }
Rectangles == { i \in DOMAIN objs : objs[i].kind = "rect" }

-----------------------------------------------------------------------------
(* State machine *)

Eng == Engine(size, cleanTiles, objs, tile, tilePool, nalloc)

\* No call of the codec has been made on its own.
NoCodecCall == [op |-> "none", in |-> <<>>, out |-> <<>>]

Init ==
    /\ size \in Sizes
    /\ LET e == NewEngine(size)
       IN /\ cleanTiles = e.cleanTiles
          /\ objs = e.objs
          /\ tile = e.tile
          /\ tilePool = e.tilePool
          /\ nalloc = e.nalloc
    /\ display = NewScreen(size)
    /\ calls = <<>>
    /\ lastOp = "NewEngine"
    /\ lastMut = "NewEngine"
    /\ lastObj = NilId
    /\ lastFail = {}
    /\ moves = 0
    /\ displays = 0
    /\ codec = NoCodecCall

\* What every mutation does with the state: it stores the changed objects and
\* flags and leaves the tiles and the Displayer alone.
Mutation(e, op, id, isMove) ==
    /\ \E r \in {e} :
          /\ cleanTiles' = r.cleanTiles
          /\ objs' = r.objs
    /\ calls' = <<>>
    /\ lastOp' = op
    /\ lastMut' = op
    /\ lastObj' = id
    /\ lastFail' = {}
    /\ moves' = IF isMove THEN moves + 1 ELSE moves
    /\ UNCHANGED <<size, tile, tilePool, nalloc, display, displays, codec>>

CanCreate == Len(objs) - 1 < MaxObjects
CanMove == moves < MaxMoves

SetBackgroundColorOp(l, c) ==
    /\ CanMove
    /\ Mutation(SetBackgroundColor(Eng, l, c), "SetBackgroundColor", l, TRUE)

\* Variant of NewRectangleOp that draws on the Displayer at once.
NewRectangleOpEager(l, b, c) ==
    /\ CanCreate
    /\ \E r \in {NewRectangle(Eng, l, b[1], b[2], b[3], b[4], c)} :
          /\ cleanTiles' = r.cleanTiles
          /\ objs' = r.objs
    /\ display' = FillRectangleWithBuffer(display, size, 0, 0, TileSize, TileSize,
                                          [p \in TileIdx |-> c])
    /\ calls' = << <<"FillRectangleWithBuffer", 0, 0, TileSize, TileSize>> >>
    /\ lastOp' = "NewRectangle"
    /\ lastMut' = "NewRectangle"
    /\ lastObj' = Len(objs) + 1
    /\ lastFail' = {}
    /\ UNCHANGED <<size, tile, tilePool, nalloc, displays, moves, codec>>

NewRectangleOp(l, b, c) ==
    /\ CanCreate
    /\ Mutation(NewRectangle(Eng, l, b[1], b[2], b[3], b[4], c),
                "NewRectangle", Len(objs) + 1, FALSE)

NewLayerOp(l, b, c) ==
    /\ CanCreate
    /\ Mutation(NewLayer(Eng, l, b[1], b[2], b[3], b[4], c),
                "NewLayer", Len(objs) + 1, FALSE)

NewLineOp(l, p, c) ==
    /\ CanCreate
    /\ Mutation(NewLine(Eng, l, p[1], p[2], p[3], p[4], c),
                "NewLine", Len(objs) + 1, FALSE)

RectangleMoveOp(id, b) ==
    /\ CanMove
    /\ Mutation(RectangleMove(Eng, id, b[1], b[2], b[3], b[4]), "Rectangle.Move", id, TRUE)

LayerMoveOp(id, b) ==
    /\ CanMove
    /\ Mutation(LayerMove(Eng, id, b[1], b[2], b[3], b[4]), "Layer.Move", id, TRUE)

DisplayOp(fail) ==
    /\ displays < MaxDisplays
    /\ \E r \in {Display(Eng, display, fail)} :
          /\ cleanTiles' = r.e.cleanTiles
          /\ tile' = r.e.tile
          /\ tilePool' = r.e.tilePool
          /\ nalloc' = r.e.nalloc
          /\ display' = r.display
          /\ calls' = r.calls
    /\ lastOp' = "Display"
    /\ lastFail' = fail
    /\ displays' = displays + 1
    /\ UNCHANGED <<size, objs, moves, lastMut, lastObj, codec>>

Next ==
    \/ \E c \in BackgroundColors : SetBackgroundColorOp(RootId, c)
    \/ \E l \in Layers \ {RootId}, c \in LayerColors : SetBackgroundColorOp(l, c)
    \/ \E l \in Layers, b \in Boxes, c \in RectColors : NewRectangleOp(l, b, c)
    \/ \E l \in Layers, b \in Boxes, c \in LayerColors : NewLayerOp(l, b, c)
    \/ \E l \in Layers, p \in LineEnds, c \in LineColors : NewLineOp(l, p, c)
    \/ \E id \in Rectangles, b \in Boxes : RectangleMoveOp(id, b)
    \/ \E id \in Layers \ {RootId}, b \in Boxes : LayerMoveOp(id, b)
    \/ DisplayOp({})

Spec == Init /\ [][Next]_vars

\* The scenario of TestRectBasic: a 100 x 100 screen on which rectangles are
\* created on the root layer and displayed.
ScenarioSize == <<100, 100>>
ScenarioBoxes == { <<10, 10, 30, 30>>, <<-10, -10, 30, 30>>, <<90, 90, 30, 30>> }
ScenarioColors == { Yellow, Orange }

InitScenario ==
    /\ size = ScenarioSize
    /\ \E e \in {NewEngine(size)} :
          /\ cleanTiles = e.cleanTiles
          /\ objs = e.objs
          /\ tile = e.tile
          /\ tilePool = e.tilePool
          /\ nalloc = e.nalloc
    /\ display = NewScreen(size)
    /\ calls = <<>>
    /\ lastOp = "NewEngine"
    /\ lastMut = "NewEngine"
    /\ lastObj = NilId
    /\ lastFail = {}
    /\ moves = 0
    /\ displays = 0
    /\ codec = NoCodecCall

NextScenario ==
    \/ \E b \in ScenarioBoxes, c \in ScenarioColors : NewRectangleOp(RootId, b, c)
    \/ DisplayOp({})

SpecScenario == InitScenario /\ [][NextScenario]_vars

\* A Displayer whose FillRectangleWithBuffer can return an I/O error: each
\* Display call is made with the set of tile origins whose write fails.
FailSets == { {<<0, 0>>}, {<<8, 0>>}, {<<0, 0>>, <<8, 0>>} }

NextAdapterError ==
    \/ \E c \in BackgroundColors : SetBackgroundColorOp(RootId, c)
    \/ \E b \in Boxes, c \in RectColors : NewRectangleOp(RootId, b, c)
    \/ \E id \in Rectangles, b \in Boxes : RectangleMoveOp(id, b)
    \/ DisplayOp({})
    \/ \E f \in FailSets : DisplayOp(f)

SpecAdapterError == Init /\ [][NextAdapterError]_vars

\* Geometric edge cases: x, y, width, height of a box that lies off-screen
\* at negative coordinates, one off-screen beyond the display, one of zero
\* size, and one that starts at negative coordinates and reaches the display.
EdgeBoxes == { <<-20, -20, 5, 5>>, <<40, 40, 5, 5>>, <<4, 4, 0, 0>>, <<-3, -3, 8, 8>> }

\* x1, y1, x2, y2 of a line that lies off-screen at negative coordinates, a
\* line of one point, and a line that starts left of the display and ends
\* right of it.
EdgeLines == { <<-9, -2, -3, -7>>, <<5, 5, 5, 5>>, <<-2, 3, 20, 11>> }

NextEdge ==
    \/ \E l \in Layers, b \in EdgeBoxes : NewRectangleOp(l, b, Yellow)
    \/ \E b \in EdgeBoxes, c \in LayerColors : NewLayerOp(RootId, b, c)
    \/ \E l \in Layers, p \in EdgeLines, c \in LineColors : NewLineOp(l, p, c)
    \/ \E id \in Rectangles, b \in EdgeBoxes : RectangleMoveOp(id, b)
    \/ \E id \in Layers \ {RootId}, b \in EdgeBoxes : LayerMoveOp(id, b)
    \/ DisplayOp({})

SpecEdge == Init /\ [][NextEdge]_vars

\* The colour codec on its own: TestGamma feeds every 8-bit value through
\* decodeGamma and encodeGamma, TestBlend blends colours with Blend.
Components == 0 .. 255
ChannelValues == {0, 100, 255}
AlphaValues == {0, 100, 200, 255}
Bottoms == { <<r, g, b, a>> : r \in ChannelValues, g \in ChannelValues,
                              b \in ChannelValues, a \in {128, 255} }
Tops == { <<r, g, b, a>> : r \in ChannelValues, g \in ChannelValues,
                           b \in ChannelValues, a \in AlphaValues }

InitCodec ==
    /\ size = <<16, 16>>
    /\ \E e \in {NewEngine(size)} :
          /\ cleanTiles = e.cleanTiles
          /\ objs = e.objs
          /\ tile = e.tile
          /\ tilePool = e.tilePool
          /\ nalloc = e.nalloc
    /\ display = NewScreen(size)
    /\ calls = <<>>
    /\ lastOp = "NewEngine"
    /\ lastMut = "NewEngine"
    /\ lastObj = NilId
    /\ lastFail = {}
    /\ moves = 0
    /\ displays = 0
    /\ codec \in { [op |-> "input", in |-> <<n>>, out |-> <<>>] : n \in Components }
                \cup { [op |-> "input", in |-> <<bottom, top>>, out |-> <<>>] :
                          bottom \in Bottoms, top \in Tops }

EngineUnchanged ==
    UNCHANGED <<size, cleanTiles, objs, tile, tilePool, nalloc, display, calls,
                lastOp, lastMut, lastObj, lastFail, moves, displays>>

\* linear := decodeGamma(uint8(n)); n2 := encodeGamma(linear)
GammaOp ==
    /\ codec.op = "input" /\ Len(codec.in) = 1
    /\ codec' = [op |-> "Gamma", in |-> codec.in,
                 out |-> << decodeGamma(codec.in[1]),
                            encodeGamma(decodeGamma(codec.in[1])) >>]
    /\ EngineUnchanged

BlendOp ==
    /\ codec.op = "input" /\ Len(codec.in) = 2
    /\ codec' = [op |-> "Blend", in |-> codec.in,
                 out |-> << Blend(codec.in[1], codec.in[2]) >>]
    /\ EngineUnchanged

NextCodec == GammaOp \/ BlendOp

SpecCodec == InitCodec /\ [][NextCodec]_vars

\* One rectangle on the root layer of a 16 x 16 display, moved to boxes that
\* lie beside, touch, overlap, contain or are contained in its box.
OldBoxes == { <<3, 3, 2, 2>>, <<1, 1, 4, 4>>, <<3, 3, 0, 0>>, <<1, 3, 4, 2>> }
MoveCorners == {1, 3, 5, 6}
MoveExtents == {0, 2, 4}
MoveBoxes == { <<x, y, w, h>> : x \in MoveCorners, y \in MoveCorners,
                                w \in MoveExtents, h \in MoveExtents }

InitMove ==
    /\ size = <<16, 16>>
    /\ \E b \in OldBoxes :
          \E e \in {NewRectangle(NewEngine(size), RootId, b[1], b[2], b[3], b[4], Yellow)} :
             /\ cleanTiles = e.cleanTiles
             /\ objs = e.objs
             /\ tile = e.tile
             /\ tilePool = e.tilePool
             /\ nalloc = e.nalloc
    /\ display = NewScreen(size)
    /\ calls = <<>>
    /\ lastOp = "NewRectangle"
    /\ lastMut = "NewRectangle"
    /\ lastObj = 2
    /\ lastFail = {}
    /\ moves = 0
    /\ displays = 0
    /\ codec = NoCodecCall

NextMove ==
    \/ \E id \in Rectangles, b \in MoveBoxes : RectangleMoveOp(id, b)
    \/ DisplayOp({})

SpecMove == InitMove /\ [][NextMove]_vars

\* A layer on the root layer, with a rectangle in it, that is moved to a new
\* origin or only resized.
\* The display has 4 x 4 tiles, so that a large layer covers tiles that none
\* of the strips of Rectangle.Move reaches.
LayerBoxes == { <<1, 1, 30, 30>>, <<2, 1, 30, 30>>, <<1, 1, 20, 28>>, <<12, 3, 3, 8>> }

InitLayerMove ==
    /\ size = <<32, 32>>
    /\ \E e \in {NewEngine(size)} :
          /\ cleanTiles = e.cleanTiles
          /\ objs = e.objs
          /\ tile = e.tile
          /\ tilePool = e.tilePool
          /\ nalloc = e.nalloc
    /\ display = NewScreen(size)
    /\ calls = <<>>
    /\ lastOp = "NewEngine"
    /\ lastMut = "NewEngine"
    /\ lastObj = NilId
    /\ lastFail = {}
    /\ moves = 0
    /\ displays = 0
    /\ codec = NoCodecCall

NextLayerMove ==
    \/ \E b \in LayerBoxes, c \in LayerColors : NewLayerOp(RootId, b, c)
    \/ \E l \in Layers \ {RootId}, b \in { <<1, 1, 3, 3>> } : NewRectangleOp(l, b, Yellow)
    \/ \E id \in Layers \ {RootId}, b \in LayerBoxes : LayerMoveOp(id, b)
    \/ DisplayOp({})

SpecLayerMove == InitLayerMove /\ [][NextLayerMove]_vars

\* Diagonal lines on the root layer or in an opaque layer whose origin is no
\* multiple of TileSize, so that Line.paint is entered at many tile offsets.
\* The lines are x-dominant falling and rising, y-dominant falling and rising.
DiagonalLines == { <<1, 2, 14, 7>>, <<2, 13, 15, 9>>, <<3, 1, 7, 14>>, <<12, 1, 9, 12>> }
LineLayerBoxes == { <<3, -2, 20, 20>>, <<-5, 1, 18, 14>> }

NextLine ==
    \/ \E b \in LineLayerBoxes : NewLayerOp(RootId, b, Grey)
    \/ \E l \in Layers, p \in DiagonalLines, c \in { White, TransYellow } : NewLineOp(l, p, c)
    \/ DisplayOp({})

SpecLine == Init /\ [][NextLine]_vars

\* An opaque or a translucent layer on a grey or black root layer, with an
\* opaque rectangle in it.
CompositeChildBoxes == { <<1, 1, 3, 3>>, <<-2, 2, 20, 2>> }

NextComposite ==
    \/ \E c \in BackgroundColors : SetBackgroundColorOp(RootId, c)
    \/ \E b \in Boxes, c \in { TransRed, Orange } : NewLayerOp(RootId, b, c)
    \/ \E l \in Layers \ {RootId}, b \in CompositeChildBoxes : NewRectangleOp(l, b, Yellow)
    \/ DisplayOp({})

SpecComposite == Init /\ [][NextComposite]_vars

\* Blend of an opaque bottom colour with every premultiplied grey top colour
\* (each channel at most the alpha), and encodeGamma of every linear
\* intensity up to 255*255.
OpaqueBottom == <<255, 128, 0, 255>>
PremultipliedTops == UNION { { <<t, t, t, a>> : t \in 0 .. a } : a \in Components }

InitBlendRange ==
    /\ size = <<16, 16>>
    /\ \E e \in {NewEngine(size)} :
          /\ cleanTiles = e.cleanTiles
          /\ objs = e.objs
          /\ tile = e.tile
          /\ tilePool = e.tilePool
          /\ nalloc = e.nalloc
    /\ display = NewScreen(size)
    /\ calls = <<>>
    /\ lastOp = "NewEngine"
    /\ lastMut = "NewEngine"
    /\ lastObj = NilId
    /\ lastFail = {}
    /\ moves = 0
    /\ displays = 0
    /\ \/ \E x \in 0 .. (255 * 255) :
             codec = [op |-> "input", in |-> <<x>>, out |-> <<>>]
       \/ \E top \in PremultipliedTops :
             codec = [op |-> "input", in |-> <<OpaqueBottom, top>>, out |-> <<>>]
       \/ \E c \in Components, weight \in Components :
             codec = [op |-> "input", in |-> <<OpaqueBottom, <<c, c, c, 255>>, weight>>,
                      out |-> <<>>]

\* n2 := encodeGamma(linear)
EncodeGammaOp ==
    /\ codec.op = "input" /\ Len(codec.in) = 1
    /\ codec' = [op |-> "encodeGamma", in |-> codec.in, out |-> << encodeGamma(codec.in[1]) >>]
    /\ EngineUnchanged

\* Line.paintPixel on a pixel inside the tile:
\* t[i] = Blend(t[i], ApplyAlpha(l.color, weight))
PaintPixelOp ==
    /\ codec.op = "input" /\ Len(codec.in) = 3
    /\ codec' = [op |-> "paintPixel", in |-> codec.in,
                 out |-> << ApplyAlpha(codec.in[2], codec.in[3]),
                            paintPixel([color |-> codec.in[2]], codec.in[1], codec.in[3]) >>]
    /\ EngineUnchanged

NextBlendRange == EncodeGammaOp \/ BlendOp \/ PaintPixelOp

SpecBlendRange == InitBlendRange /\ [][NextBlendRange]_vars

\* Opaque rectangles of two colours on the root layer, created and moved so
\* that they overlap.
NextOrder ==
    \/ \E b \in Boxes, c \in ScenarioColors : NewRectangleOp(RootId, b, c)
    \/ \E id \in Rectangles, b \in Boxes : RectangleMoveOp(id, b)
    \/ DisplayOp({})

SpecOrder == Init /\ [][NextOrder]_vars

-----------------------------------------------------------------------------
(* Reference renderings used by the properties *)

\* The cells of the dirty grid as NewEngine allocates it and Display reads
\* it: cell <<i, j>> is the tile with origin (TileSize*i, TileSize*j).
Cells == { <<i, j>> : i \in DOMAIN cleanTiles, j \in DOMAIN cleanTiles[0] }

\* A fresh engine on a display of the same size, on which the background is
\* set and every object of os (from the k-th on) is created directly with
\* the geometry and colour it has in os.
RECURSIVE Recreate(_, _, _)
Recreate(e, os, k) ==
    IF k > Len(os) THEN e
    ELSE LET o == os[k]
             e1 == IF o.kind = "rect"
                   THEN NewRectangle(e, o.parent, o.x1, o.y1,
                                     o.x2 - o.x1, o.y2 - o.y1, o.color)
                   ELSE IF o.kind = "layer"
                   THEN NewLayer(e, o.parent, o.x1, o.y1,
                                 o.x2 - o.x1, o.y2 - o.y1, o.color)
                   ELSE NewLine(e, o.parent, o.x1, o.y1, o.x2, o.y2, o.color)
         IN Recreate(e1, os, k + 1)

\* The pixels of the Displayer of that fresh engine after one Display.
FreshDisplay ==
    Display(Recreate(SetBackgroundColor(NewEngine(size), RootId, objs[RootId].color),
                     objs, 2),
            NewScreen(size), {}).display

\* The tile the root layer paints for the current objects at a tile origin.
RootTile(tileX, tileY) ==
    LayerPaint(objs, [t |-> ZeroTile, pool |-> <<>>, nalloc |-> 0, log |-> <<>>],
               RootId, tileX, tileY).t

\* The pixel of the display at (x, y)
Pixel(px, x, y) == px[y][x]

\* Absolute bounding box of object id of os: its bounding box moved by the
\* origins of all layers above it.
AbsBox(os, id) ==
    LET bb == boundingBox(os[id])
        pos == absolutePos(os, id, bb[1], bb[2])
    IN <<pos[1], pos[2], pos[1] + (bb[3] - bb[1]), pos[2] + (bb[4] - bb[2])>>

\* Tile <<i, j>> contains at least one pixel of the box
TileTouches(c, box) ==
    /\ box[1] < box[3] /\ box[2] < box[4]
    /\ box[1] < TileSize * (c[1] + 1) /\ box[3] > TileSize * c[1]
    /\ box[2] < TileSize * (c[2] + 1) /\ box[4] > TileSize * c[2]

-----------------------------------------------------------------------------
(* Properties *)

\* C1 (Rectangle move equivalence): whenever Display has just returned, the
\* scene is one rectangle on the root layer and the last change was a Move
\* of it (with or without a Display before the Move), the pixels of the display equal those of a fresh
\* engine with the same background on which the rectangle is created at its
\* final position and size and Display is called once.
C1_RectMoveEquivalence ==
    (/\ lastOp = "Display" /\ lastMut = "Rectangle.Move"
     /\ Len(objs) = 2 /\ objs[2].kind = "rect")
        => display = FreshDisplay

\* C2 (Layer move equivalence): whenever Display has just returned, the
\* scene is a layer with one nested rectangle and the last change was a
\* Move of the layer, the pixels of the display
\* equal those of a fresh engine in which the layer is created at its final
\* geometry with the same nested rectangle and Display is called once.
C2_LayerMoveEquivalence ==
    (/\ lastOp = "Display" /\ lastMut = "Layer.Move" /\ Len(objs) = 3
     /\ objs[2].kind = "layer" /\ objs[3].kind = "rect" /\ objs[3].parent = 2)
        => display = FreshDisplay

\* C3 (Line invalidation completeness): whenever Display has returned for
\* the second time and the last change was the creation of a line, the
\* pixels of the display equal those of a fresh engine on which all
\* objects including the line are created before the first Display.
C3_LineInvalidationComplete ==
    (/\ lastOp = "Display" /\ lastMut = "NewLine" /\ displays >= 2)
        => display = FreshDisplay

\* C4 (Dirty-grid coverage): after every mutation, every grid tile that
\* contains a pixel of the old or of the new absolute extent of the mutated
\* object has its clean flag false.
C4_DirtyCoverage ==
    [][ (lastOp' # "Display") =>
          \A c \in Cells :
             ( \/ (lastObj' \in DOMAIN objs /\ TileTouches(c, AbsBox(objs, lastObj')))
               \/ TileTouches(c, AbsBox(objs', lastObj')) )
                => ~cleanTiles'[c[1]][c[2]] ]_vars

\* C6 (Stale-content invariant): in every reachable state a tile whose flag
\* is clean shows on the display exactly what the current scene paints
\* there; a tile whose pixels differ from the scene has its flag false.
C6_CleanMeansCurrent ==
    \A c \in Cells :
        cleanTiles[c[1]][c[2]] =>
            \A p \in TileIdx :
                Pixel(display, TileSize * c[1] + PX(p), TileSize * c[2] + PY(p))
                    = RootTile(TileSize * c[1], TileSize * c[2])[p]

\* The cells whose flag says "needs redraw", and the Displayer write that
\* Display issues for a cell.
DirtyCells == { c \in Cells : ~cleanTiles[c[1]][c[2]] }
FillCallOf(c) ==
    <<"FillRectangleWithBuffer", TileSize * c[1], TileSize * c[2], TileSize, TileSize>>

\* The pixels of the display that lie in the tile of cell c
TileOnDisplay(px, c) ==
    [p \in TileIdx |-> Pixel(px, TileSize * c[1] + PX(p), TileSize * c[2] + PY(p))]

\* C5 (Display repaints exactly the dirty tiles): a Display step issues one
\* tile write for every cell whose flag was dirty and none for a clean one,
\* then Displayer.Display once; a dirty tile then shows what the root layer
\* paints there, every other pixel of the display is unchanged, and on
\* return every flag is clean (so a Display without a mutation in between
\* writes no tile).
C5_DisplayExactlyDirty ==
    [][ (lastOp' = "Display") =>
          /\ Len(calls') = Cardinality(DirtyCells) + 1
          /\ calls'[Len(calls')] = <<"Display">>
          /\ \A c \in DirtyCells :
                /\ \E k \in 1 .. (Len(calls') - 1) : calls'[k] = FillCallOf(c)
                /\ TileOnDisplay(display', c) = RootTile(TileSize * c[1], TileSize * c[2])
          /\ \A y \in DOMAIN display : \A x \in DOMAIN display[y] :
                (\A c \in DirtyCells : ~TileTouches(c, <<x, y, x + 1, y + 1>>))
                   => Pixel(display', x, y) = Pixel(display, x, y)
          /\ \A c \in Cells : cleanTiles'[c[1]][c[2]] ]_vars

\* C5 witness: a second Display that rewrote some tiles but not all of them.
C5_Witness ==
    /\ lastOp = "Display" /\ displays = 2
    /\ Len(calls) > 1 /\ Len(calls) - 1 < Cardinality(Cells)

\* C7 (Snapshot semantics): a step of any operation other than Display
\* issues no Displayer call and leaves every pixel of the display as the
\* last Display left it.
C7_SnapshotSemantics ==
    [][ (lastOp' # "Display") => (display' = display /\ calls' = <<>>) ]_vars

\* C7 witness: a mutation made after a Display that has marked tiles for
\* redraw, with the display still holding what that Display wrote.
C7_Witness ==
    /\ lastOp \notin {"Display", "NewEngine"} /\ displays >= 1
    /\ display # NewScreen(size)
    /\ DirtyCells # {}

\* The engine in which layer l has no children
StripChildren(e, l) == [e EXCEPT !.objs[l].objects = <<>>]

\* Pixel (x, y) of the display lies inside the absolute rectangle of object l
InsideAbs(os, l, x, y) ==
    LET b == AbsBox(os, l)
    IN x >= b[1] /\ x < b[3] /\ y >= b[2] /\ y < b[4]

\* C8 (Clipping): for every layer other than the root, (a) after a Display
\* step every pixel of the display outside the layer's absolute rectangle
\* has the value the same Display would have written had the layer no
\* children, and (b) Layer.paint of that layer onto the engine's tile, at any
\* tile origin of the grid, leaves every pixel of the tile outside the
\* layer's bounds unchanged.
C8_Clipping ==
    [][ (lastOp' = "Display") =>
          \A l \in Layers \ {RootId} :
             /\ \E ref \in {Display(StripChildren(Eng, l), display, {}).display} :
                   \A y \in DOMAIN display : \A x \in DOMAIN display[y] :
                      ~InsideAbs(objs, l, x, y)
                         => Pixel(display', x, y) = Pixel(ref, x, y)
             /\ \A c \in Cells :
                   LET org == absolutePos(objs, l, 0, 0)
                       tileX == TileSize * c[1] - org[1]
                       tileY == TileSize * c[2] - org[2]
                       out == LayerPaint(objs, [t |-> tile', pool |-> <<>>, nalloc |-> 0,
                                                log |-> <<>>],
                                         l, tileX, tileY).t
                   IN \A p \in TileIdx :
                         ~InsideAbs(objs, l, TileSize * c[1] + PX(p), TileSize * c[2] + PY(p))
                            => out[p] = tile'[p] ]_vars

\* C8 witness: Display has painted a scene in which a child of a layer other
\* than the root reaches beyond the layer's own rectangle.
C8_Witness ==
    /\ lastOp = "Display"
    /\ \E l \in Layers \ {RootId} :
          \E k \in 1 .. Len(objs[l].objects) :
             LET bb == boundingBox(objs[objs[l].objects[k]])
             IN /\ bb[1] < bb[3] /\ bb[2] < bb[4]
                /\ \/ bb[1] < 0 \/ bb[2] < 0
                   \/ bb[3] > objs[l].x2 - objs[l].x1
                   \/ bb[4] > objs[l].y2 - objs[l].y1

\* Pixel (x, y) is covered by no object: it lies in the bounding box of no
\* child of the root layer.
Uncovered(os, x, y) ==
    \A k \in 1 .. Len(os[RootId].objects) :
        ~InsideAbs(os, os[RootId].objects[k], x, y)

\* C9 (Background change invalidates all): a step of
\* Engine.SetBackgroundColor leaves every cell of the grid dirty, whatever
\* the display size, and the Display that follows rewrites every tile and
\* leaves every pixel of the display that no object covers showing the new
\* colour.
C9_BackgroundInvalidatesAll ==
    [][ (lastOp' = "SetBackgroundColor" /\ lastObj' = RootId) =>
          /\ \A c \in Cells : ~cleanTiles'[c[1]][c[2]]
          /\ \E r \in {Display(Engine(size', cleanTiles', objs', tile', tilePool', nalloc'),
                               display', {})} :
                /\ \A c \in Cells :
                      \E k \in 1 .. Len(r.calls) : r.calls[k] = FillCallOf(c)
                /\ \A y \in DOMAIN display : \A x \in DOMAIN display[y] :
                      Uncovered(objs', x, y)
                         => Pixel(r.display, x, y) = objs'[RootId].color ]_vars

\* C10 (Initial state and first Display): right after NewEngine the grid has
\* floor(width/TileSize) x floor(height/TileSize) cells, all dirty, the root
\* layer is (0, 0, width, height) with opaque black background, the engine
\* tile has 64 pixels and the tile pool is empty; the first Display writes
\* every grid tile exactly once; and on the 100 x 100 display with one
\* opaque yellow rectangle at (10, 10, 30, 30) the first Display leaves
\* pixel (20, 20) yellow and pixel (5, 5) black.
C10_InitialStateAndFirstDisplay ==
    /\ (lastOp = "NewEngine") =>
          /\ DOMAIN cleanTiles = 0 .. ((size[1] \div TileSize) - 1)
          /\ \A i \in DOMAIN cleanTiles :
                /\ DOMAIN cleanTiles[i] = 0 .. ((size[2] \div TileSize) - 1)
                /\ \A j \in DOMAIN cleanTiles[i] : cleanTiles[i][j] = FALSE
          /\ Len(objs) = 1
          /\ objs[RootId].kind = "layer"
          /\ <<objs[RootId].x1, objs[RootId].y1, objs[RootId].x2, objs[RootId].y2>>
                = <<0, 0, size[1], size[2]>>
          /\ objs[RootId].color = <<0, 0, 0, 255>>
          /\ objs[RootId].objects = <<>>
          /\ Cardinality(DOMAIN tile) = 64
          /\ tilePool = <<>>
    /\ (lastOp = "Display" /\ displays = 1) =>
          /\ Len(calls) = Cardinality(Cells) + 1
          /\ \A c \in Cells : \E k \in 1 .. (Len(calls) - 1) : calls[k] = FillCallOf(c)
    /\ (/\ lastOp = "Display" /\ displays = 1 /\ size = <<100, 100>>
        /\ Len(objs) = 2 /\ objs[2].kind = "rect"
        /\ <<objs[2].x1, objs[2].y1, objs[2].x2, objs[2].y2>> = <<10, 10, 40, 40>>
        /\ objs[2].color = <<255, 255, 0, 255>>) =>
          /\ Pixel(display, 20, 20) = <<255, 255, 0, 255>>
          /\ Pixel(display, 5, 5) = <<0, 0, 0, 255>>

\* C10 witness: the first Display of the 100 x 100 screen with the yellow
\* rectangle at (10, 10, 30, 30) has returned.
C10_Witness ==
    /\ lastOp = "Display" /\ displays = 1 /\ size = <<100, 100>>
    /\ Len(objs) = 2 /\ objs[2].kind = "rect"
    /\ <<objs[2].x1, objs[2].y1, objs[2].x2, objs[2].y2>> = <<10, 10, 40, 40>>
    /\ objs[2].color = Yellow
    /\ Len(calls) = 145

\* The positions of the Displayer.Display calls in a sequence of calls
FlushCalls(cs) == { k \in 1 .. Len(cs) : cs[k] = <<"Display">> }

\* C11 (One flush per Display): the calls a Display step makes to the
\* Displayer contain Displayer.Display exactly once, as the last call, so
\* after the last FillRectangleWithBuffer and never between two tile writes;
\* every call before it is a tile write.  This holds also for a Display that
\* finds no tile to redraw.
C11_FlushOnceAtEnd ==
    [][ (lastOp' = "Display") =>
          /\ FlushCalls(calls') = { Len(calls') }
          /\ \A k \in 1 .. (Len(calls') - 1) :
                calls'[k][1] = "FillRectangleWithBuffer" ]_vars

\* C11 witness: a second Display that found no tile to redraw and made the
\* Displayer.Display call alone, after a first Display that wrote tiles.
C11_Witness ==
    /\ lastOp = "Display" /\ displays = 2
    /\ calls = << <<"Display">> >>
    /\ display # NewScreen(size)

\* The tile writes of a sequence of calls that address the tile origin org
WritesTo(cs, org) ==
    { k \in 1 .. Len(cs) : /\ cs[k][1] = "FillRectangleWithBuffer"
                           /\ <<cs[k][2], cs[k][3]>> = org }

\* C12 (Adapter-error policy): a Display step during which the Displayer
\* returns an error for some tile writes makes exactly the calls, in the same
\* order, that it makes when no write fails: the failed tile is written once
\* (no retry), every remaining dirty tile is still written, and
\* Displayer.Display is still called once at the end.  The engine is left as
\* by a Display without failure (every flag clean): nothing of the error
\* reaches the caller.  Every pixel outside the tiles whose write failed is
\* what the Display without failure leaves.
C12_AdapterErrorPolicy ==
    [][ (lastOp' = "Display" /\ lastFail' # {}) =>
          \E r \in {Display(Eng, display, {})} :
             /\ calls' = r.calls
             /\ \A org \in lastFail' :
                   Cardinality(WritesTo(calls', org)) =
                      IF \E c \in DirtyCells : <<TileSize * c[1], TileSize * c[2]>> = org
                      THEN 1 ELSE 0
             /\ FlushCalls(calls') = { Len(calls') }
             /\ cleanTiles' = r.e.cleanTiles
             /\ tile' = r.e.tile
             /\ tilePool' = r.e.tilePool
             /\ nalloc' = r.e.nalloc
             /\ \A c \in Cells : cleanTiles'[c[1]][c[2]]
             /\ \A y \in DOMAIN display : \A x \in DOMAIN display[y] :
                   (\A org \in lastFail' :
                       ~(x >= org[1] /\ x < org[1] + TileSize
                         /\ y >= org[2] /\ y < org[2] + TileSize))
                      => Pixel(display', x, y) = Pixel(r.display, x, y) ]_vars

\* C12 witness: a Display during which the write of the first tile failed
\* and that went on to write further tiles and to call Displayer.Display.
C12_Witness ==
    /\ lastOp = "Display" /\ <<0, 0>> \in lastFail
    /\ Len(calls) >= 3
    /\ <<calls[1][2], calls[1][3]>> = <<0, 0>>
    /\ calls[2][1] = "FillRectangleWithBuffer"
    /\ calls[Len(calls)] = <<"Display">>

\* No tile identity occurs twice in a sequence of identities
NoDuplicate(ids) ==
    \A i, j \in DOMAIN ids : (i # j) => (ids[i] # ids[j])

\* The log of getTile and putTile calls from the k-th on respects the
\* borrowing discipline, held being the tiles that in-progress Layer.paint
\* frames hold: getTile hands out no tile that is held or still in the pool
\* it leaves, putTile gives back a held tile that is not in the pool yet, and
\* the pool never has a tile twice.
RECURSIVE ExclusiveFrom(_, _, _)
ExclusiveFrom(log, k, held) ==
    IF k > Len(log) THEN held = {}
    ELSE /\ NoDuplicate(log[k][3])
         /\ IF log[k][1] = "getTile"
            THEN /\ log[k][2] \notin held
                 /\ \A i \in DOMAIN log[k][3] : log[k][3][i] # log[k][2]
                 /\ \A i \in DOMAIN log[k][3] : log[k][3][i] \notin held
                 /\ ExclusiveFrom(log, k + 1, held \cup {log[k][2]})
            ELSE /\ log[k][2] \in held
                 /\ ExclusiveFrom(log, k + 1, held \ {log[k][2]})

\* C13 (Tile-buffer exclusivity): in every reachable state the free list
\* holds no tile twice, and painting the root layer for any tile of the grid,
\* with layers nested as deep as the scene has them, hands out no tile that
\* an in-progress Layer.paint still holds or that is still in the free list,
\* gives back only held tiles, and ends with every tile given back.
C13_TileExclusivity ==
    /\ NoDuplicate(PoolIds(tilePool))
    /\ \A k \in DOMAIN tilePool : tilePool[k].id \in 1 .. nalloc
    /\ \A c \in Cells :
          \E r \in {RootPaint(Eng, c[1], c[2])} :
             /\ ExclusiveFrom(r.log, 1, {})
             /\ NoDuplicate(PoolIds(r.pool))

\* C13 witness: Display has painted a tile through three nested Layer.paint
\* frames (root, layer, layer in the layer), each holding a tile of its own,
\* and all three tiles are back in the free list.
C13_Witness ==
    /\ lastOp = "Display"
    /\ nalloc = 3 /\ Len(tilePool) = 3
    /\ \E c \in Cells : Len(RootPaint(Eng, c[1], c[2]).log) = 6

\* Variant of invalidateTiles without the limit to the screen.
invalidateTilesNoLimit(ct, os, id, x1, y1, x2, y2) ==
    [tileX1 |-> Quot(absolutePos(os, id, x1, y1)[1], TileSize),
     tileX2 |-> Quot(I16(absolutePos(os, id, x1, y1)[1] + I16(x2 - x1) + TileSize), TileSize),
     tileY1 |-> Quot(absolutePos(os, id, x1, y1)[2], TileSize),
     tileY2 |-> Quot(I16(absolutePos(os, id, x1, y1)[2] + I16(y2 - y1) + TileSize), TileSize)]

\* The bounds of the two loops of Rectangle.invalidate: the tile grid indices
\* after they have been limited to the screen.
invalidateTiles(ct, os, id, x1, y1, x2, y2) ==
    LET pos == absolutePos(os, id, x1, y1)
        tX1 == Quot(pos[1], TileSize)
        tY1 == Quot(pos[2], TileSize)
        tX2 == Quot(I16(pos[1] + I16(x2 - x1) + TileSize), TileSize)
        tY2 == Quot(I16(pos[2] + I16(y2 - y1) + TileSize), TileSize)
    IN [tileX1 |-> IF tX1 < 0 THEN 0 ELSE tX1,
        tileX2 |-> IF tX2 >= Cardinality(DOMAIN ct[0])
                   THEN Cardinality(DOMAIN ct[0]) ELSE tX2,
        tileY1 |-> IF tY1 < 0 THEN 0 ELSE tY1,
        tileY2 |-> IF tY2 >= Cardinality(DOMAIN ct)
                   THEN Cardinality(DOMAIN ct) ELSE tY2]

\* The index pairs <<tileY, tileX>> at which those loops index
\* cleanTiles[tileY][tileX]
invalidateAccess(rg) ==
    { <<tileY, tileX>> : tileY \in rg.tileY1 .. (rg.tileY2 - 1),
                         tileX \in rg.tileX1 .. (rg.tileX2 - 1) }

\* Rectangle.invalidateMiddleBlock: the box it passes to invalidate
middleBlock(xA, maxY1, xB, minY2) ==
    IF xA > xB THEN <<xB, maxY1, xA, minY2>> ELSE <<xA, maxY1, xB, minY2>>

\* Variant of MoveStrips whose left and right blocks span the whole height of
\* the old box.
MoveStripsFullHeight(r, newX1, newY1, newX2, newY2) ==
    IF newX1 > r.x2 \/ newY1 > r.y2 \/ newX2 < r.x1 \/ newY2 < r.y1
    THEN << <<r.x1, r.y1, r.x2, r.y2>>, <<newX1, newY1, newX2, newY2>> >>
    ELSE (IF newX1 # r.x1 THEN << middleBlock(newX1, r.y1, r.x1, r.y2) >> ELSE <<>>)
         \o (IF newX2 # r.x2 THEN << middleBlock(newX2, r.y1, r.x2, r.y2) >> ELSE <<>>)
         \o (IF newY1 # r.y1
             THEN IF newY1 > r.y1
                  THEN << <<r.x1, r.y1, r.x2, newY1>> >>
                  ELSE << <<newX1, newY1, newX2, r.y1>> >>
             ELSE <<>>)
         \o (IF newY2 # r.y2
             THEN IF newY2 > r.y2
                  THEN << <<newX1, r.y2, newX2, newY2>> >>
                  ELSE << <<r.x1, newY2, r.x2, r.y2>> >>
             ELSE <<>>)

\* The boxes <<x1, y1, x2, y2>> that Rectangle.Move of rectangle r to the new
\* coordinates passes to invalidate, in the order of the calls.
MoveStrips(r, newX1, newY1, newX2, newY2) ==
    IF newX1 > r.x2 \/ newY1 > r.y2 \/ newX2 < r.x1 \/ newY2 < r.y1
    THEN << <<r.x1, r.y1, r.x2, r.y2>>, <<newX1, newY1, newX2, newY2>> >>
    ELSE LET maxY1 == IF newY1 > r.y1 THEN newY1 ELSE r.y1
             minY2 == IF newY2 < r.y2 THEN newY2 ELSE r.y2
         IN (IF newX1 # r.x1 THEN << middleBlock(newX1, maxY1, r.x1, minY2) >> ELSE <<>>)
            \o (IF newX2 # r.x2 THEN << middleBlock(newX2, maxY1, r.x2, minY2) >> ELSE <<>>)
            \o (IF newY1 # r.y1
                THEN IF newY1 > r.y1
                     THEN << <<r.x1, r.y1, r.x2, newY1>> >>
                     ELSE << <<newX1, newY1, newX2, r.y1>> >>
                ELSE <<>>)
            \o (IF newY2 # r.y2
                THEN IF newY2 > r.y2
                     THEN << <<newX1, r.y2, newX2, newY2>> >>
                     ELSE << <<r.x1, newY2, r.x2, r.y2>> >>
                ELSE <<>>)

\* The boxes passed to invalidate by the operation of the step, for the
\* object lastObj' the operation created or changed.
StepBoxes ==
    IF lastOp' \in {"NewRectangle", "NewLayer", "NewLine"}
    THEN << boundingBox(objs'[lastObj']) >>
    ELSE IF lastOp' = "SetBackgroundColor"
    THEN << boundingBox(objs[lastObj']) >>
    ELSE IF lastOp' \in {"Rectangle.Move", "Layer.Move"}
    THEN (IF /\ lastOp' = "Layer.Move"
             /\ (objs'[lastObj'].x1 # objs[lastObj'].x1 \/ objs'[lastObj'].y1 # objs[lastObj'].y1)
          THEN << boundingBox(objs[lastObj']) >>
          ELSE <<>>)
         \o MoveStrips(objs[lastObj'], objs'[lastObj'].x1, objs'[lastObj'].y1,
                       objs'[lastObj'].x2, objs'[lastObj'].y2)
    ELSE <<>>

\* The index pairs at which the operation of the step indexes the grid
StepAccess ==
    UNION { invalidateAccess(invalidateTiles(cleanTiles, objs', lastObj',
                                             StepBoxes[k][1], StepBoxes[k][2],
                                             StepBoxes[k][3], StepBoxes[k][4])) :
            k \in DOMAIN StepBoxes }

\* The bounds of the loops of Rectangle.paint: the rectangle in tile
\* coordinates, limited to the tile.
RectangleClip(r, tileX, tileY) ==
    [x1 |-> IF I16(r.x1 - tileX) < 0 THEN 0 ELSE I16(r.x1 - tileX),
     y1 |-> IF I16(r.y1 - tileY) < 0 THEN 0 ELSE I16(r.y1 - tileY),
     x2 |-> IF I16(r.x2 - tileX) > TileSize THEN TileSize ELSE I16(r.x2 - tileX),
     y2 |-> IF I16(r.y2 - tileY) > TileSize THEN TileSize ELSE I16(r.y2 - tileY)]

\* The tile indices y*TileSize+x of the loops "for x := x1; x < x2" and
\* "for y := y1; y < y2" of Rectangle.paint and Layer.paint
LoopIndices(b) ==
    { y * TileSize + x : x \in b.x1 .. (b.x2 - 1), y \in b.y1 .. (b.y2 - 1) }

\* The pixels <<x, y>> that the loop of Wu's algorithm in Line.paint passes
\* to paintPixel.
LineWuPixels(l, tileX, tileY) ==
    LET ax1 == I16(l.x1 - tileX)
        ax2 == I16(l.x2 - tileX)
        ay1 == I16(l.y1 - tileY)
        ay2 == I16(l.y2 - tileY)
        width == I16(l.x2 - l.x1)
        height == Abs(I16(l.y2 - l.y1))
    IN IF width > height
       THEN LET inc == Quot(I16(ay2 - ay1) * 65536, I16(ax2 - ax1))
                x1 == IF ax1 < 0 THEN 0 ELSE ax1
                x2 == IF ax2 >= TileSize THEN TileSize - 1 ELSE ax2
            IN UNION { { <<x, I16(ay1 + I16((I16(x - ax1) * inc) \div 65536))>>,
                         <<x, I16(ay1 + I16((I16(x - ax1) * inc) \div 65536) + 1)>> } :
                       x \in x1 .. x2 }
       ELSE LET swap == ay1 > ay2
                by1 == IF swap THEN ay2 ELSE ay1
                by2 == IF swap THEN ay1 ELSE ay2
                bx1 == IF swap THEN ax2 ELSE ax1
                bx2 == IF swap THEN ax1 ELSE ax2
                inc == Quot(I16(bx2 - bx1) * 65536, I16(by2 - by1))
                y1 == IF by1 < 0 THEN 0 ELSE by1
                y2 == IF by2 >= TileSize THEN TileSize - 1 ELSE by2
            IN UNION { { <<I16(bx1 + I16((I16(y - by1) * inc) \div 65536)), y>>,
                         <<I16(bx1 + I16((I16(y - by1) * inc) \div 65536) + 1), y>> } :
                       y \in y1 .. y2 }

\* The tile indices y*TileSize+x at which Line.paint indexes the tile
LinePaintAccess(l, tileX, tileY) ==
    IF l.x1 = l.x2
    THEN LET lo == IF l.y1 > l.y2 THEN l.y2 ELSE l.y1
             hi == IF l.y1 > l.y2 THEN l.y1 ELSE l.y2
             x == I16(l.x1 - tileX)
             y1 == IF I16(lo - tileY) < 0 THEN 0 ELSE I16(lo - tileY)
             y2 == IF I16(hi - tileY) >= TileSize THEN TileSize - 1 ELSE I16(hi - tileY)
         IN IF x < 0 \/ x >= TileSize THEN {}
            ELSE { y * TileSize + x : y \in y1 .. y2 }
    ELSE IF l.y1 = l.y2
    THEN LET lo == IF l.x1 > l.x2 THEN l.x2 ELSE l.x1
             hi == IF l.x1 > l.x2 THEN l.x1 ELSE l.x2
             y == I16(l.y1 - tileY)
             x1 == IF I16(lo - tileX) < 0 THEN 0 ELSE I16(lo - tileX)
             x2 == IF I16(hi - tileX) >= TileSize THEN TileSize - 1 ELSE I16(hi - tileX)
         IN IF y < 0 \/ y >= TileSize THEN {}
            ELSE { y * TileSize + x : x \in x1 .. x2 }
    ELSE { q[2] * TileSize + q[1] :
           q \in { r \in LineWuPixels(l, tileX, tileY) :
                   r[1] >= 0 /\ r[2] >= 0 /\ r[1] < TileSize /\ r[2] < TileSize } }

\* The origin of the tile of grid cell c in the coordinate system of the
\* parent of object o: the tile origin of Engine.Display, from which every
\* Layer.paintObjects on the way down subtracts its layer's origin.
LocalTile(os, o, c) ==
    << I16(TileSize * c[1] - absolutePos(os, o, 0, 0)[1]),
       I16(TileSize * c[2] - absolutePos(os, o, 0, 0)[2]) >>

\* The tile indices at which painting object o for grid cell c indexes a
\* tile: none when paintObjects skips the object.
PaintAccess(os, o, c) ==
    LET tileX == LocalTile(os, o, c)[1]
        tileY == LocalTile(os, o, c)[2]
    IN IF o # RootId /\ SkipObject(boundingBox(os[o]), tileX, tileY) THEN {}
       ELSE IF os[o].kind = "rect" THEN LoopIndices(RectangleClip(os[o], tileX, tileY))
       ELSE IF os[o].kind = "layer"
       THEN LoopIndices(LayerBounds(os[o], I16(tileX - os[o].x1), I16(tileY - os[o].y1)))
       ELSE LinePaintAccess(os[o], tileX, tileY)

\* Object o is a rectangle or layer of zero width or height, or lies, with
\* its whole bounding box, outside the display.
EmptyOnScreen(os, o) ==
    \/ os[o].kind # "line" /\ (os[o].x1 = os[o].x2 \/ os[o].y1 = os[o].y2)
    \/ AbsBox(os, o)[3] <= 0 \/ AbsBox(os, o)[4] <= 0
    \/ AbsBox(os, o)[1] >= size[1] \/ AbsBox(os, o)[2] >= size[2]

\* C14 (No fault on geometric edge cases): (a) every step that creates or
\* moves a rectangle, layer or line indexes cleanTiles only inside the
\* grid, and the flags it clears are exactly those it indexes; (b) in the
\* state it leaves, painting any object for any grid tile, as Display does,
\* indexes the tile only inside [0, TileSize*TileSize), and the paint
\* routines change no pixel of the tile at another index; (c) an object of
\* zero size or wholly outside the display is painted at no index of any
\* grid tile.
C14_NoFaultOnEdgeCases ==
    [][ /\ (lastOp' # "Display") =>
              /\ \A a \in StepAccess :
                    a[1] \in DOMAIN cleanTiles /\ a[2] \in DOMAIN cleanTiles[0]
              /\ \A c \in Cells :
                    cleanTiles'[c[1]][c[2]] = (cleanTiles[c[1]][c[2]] /\ c \notin StepAccess)
        /\ \A o \in DOMAIN objs' : \A c \in Cells :
              /\ PaintAccess(objs', o, c) \subseteq TileIdx
              /\ EmptyOnScreen(objs', o) => PaintAccess(objs', o, c) = {}
              /\ \E t \in { objectPaint(objs', [t |-> tile', pool |-> <<>>, nalloc |-> 0,
                                                log |-> <<>>],
                                        o, LocalTile(objs', o, c)[1],
                                        LocalTile(objs', o, c)[2]).t } :
                    \A p \in TileIdx :
                       (t[p] # tile'[p]) => p \in PaintAccess(objs', o, c) ]_vars

\* C14 witness: the scene has a rectangle of zero size or off-screen, an
\* object that starts at negative coordinates and is painted on the display,
\* and Display has painted it.
C14_Witness ==
    /\ lastOp = "Display"
    /\ \E o \in DOMAIN objs : o # RootId /\ EmptyOnScreen(objs, o)
    /\ \E o \in DOMAIN objs : /\ o # RootId /\ AbsBox(objs, o)[1] < 0
                              /\ \E c \in Cells : PaintAccess(objs, o, c) # {}

\* C15 (Translucent rectangles blend): when the first Display has returned
\* and the scene is one rectangle with alpha < 255 on the root layer, every
\* pixel of the display that lies in a grid tile and inside the rectangle
\* shows Blend(background, rectangle colour): the rectangle is blended with
\* the pixel that was in the layer's scratch tile, not written over it.
C15_TranslucentRectBlends ==
    (/\ lastOp = "Display" /\ displays = 1
     /\ Len(objs) = 2 /\ objs[2].kind = "rect" /\ objs[2].color[4] < 255)
        => \A c \in Cells : \A p \in TileIdx :
              InsideAbs(objs, 2, TileSize * c[1] + PX(p), TileSize * c[2] + PY(p))
                 => Pixel(display, TileSize * c[1] + PX(p), TileSize * c[2] + PY(p))
                       = Blend(objs[RootId].color, objs[2].color)

\* The positions in the child list of layer l of os of the opaque rectangles
\* whose box has the pixel (x, y) of the layer's coordinate system
OpaqueAt(os, l, x, y) ==
    { k \in 1 .. Len(os[l].objects) :
         /\ os[os[l].objects[k]].kind = "rect"
         /\ os[os[l].objects[k]].color[4] = 255
         /\ x >= os[os[l].objects[k]].x1 /\ x < os[os[l].objects[k]].x2
         /\ y >= os[os[l].objects[k]].y1 /\ y < os[os[l].objects[k]].y2 }

\* The largest element of a non-empty set of numbers
Last(S) == CHOOSE k \in S : \A j \in S : j <= k

C17_GammaRoundTrip ==
    (codec.op = "Gamma") =>
        /\ codec.in[1] \in Components
        /\ codec.out[2] = codec.in[1]
        /\ \A k \in DOMAIN encodeGammaDivisors(codec.out[1]) :
              encodeGammaDivisors(codec.out[1])[k] # 0
        /\ (codec.in[1] = 0) =>
              /\ codec.out = <<0, 0>>
              /\ encodeGammaDivisors(codec.out[1]) = <<>>

\* C17 witness: 255 has gone through decodeGamma and encodeGamma.
C17_Witness ==
    codec.op = "Gamma" /\ codec.in = <<255>> /\ codec.out = <<65025, 255>>

\* C18 (Blend): each of R, G, B of Blend(bottom, top) is
\* encodeGamma(decodeGamma(bottom.c) * (255 - top.A) / 255 + decodeGamma(top.c))
\* in integer arithmetic and the alpha is 255; with top.A = 255 the result is
\* top's colour, with top = (0,0,0,0) it is bottom's colour with alpha 255.
C18_BlendFormula ==
    (codec.op = "Blend") =>
        \E bottom \in {codec.in[1]}, top \in {codec.in[2]}, res \in {codec.out[1]} :
           /\ \A ch \in 1 .. 3 :
                 res[ch] = encodeGamma(Quot(decodeGamma(bottom[ch]) * (255 - top[4]), 255)
                                       + decodeGamma(top[ch]))
           /\ res[4] = 255
           /\ (top[4] = 255) => (res = top)
           /\ (top = ZeroColor) => (res = <<bottom[1], bottom[2], bottom[3], 255>>)

\* C18 witness: a half-transparent colour has been blended over a coloured
\* bottom and the result differs from both.
C18_Witness ==
    /\ codec.op = "Blend"
    /\ codec.in = << <<255, 100, 0, 255>>, <<0, 100, 100, 100>> >>
    /\ codec.out[1][4] = 255
    /\ codec.out[1] \notin {codec.in[1], codec.in[2]}

\* The cells <<i, j>> whose tile, which Display writes at the origin
\* (TileSize*i, TileSize*j), lies in the tile range that Rectangle.invalidate
\* computes for the absolute box: columns x1/TileSize up to
\* (x2+TileSize)/TileSize, rows y1/TileSize up to (y2+TileSize)/TileSize.
CellsOfBox(box) ==
    { c \in Cells :
         /\ c[1] >= Quot(box[1], TileSize) /\ c[1] < Quot(box[3] + TileSize, TileSize)
         /\ c[2] >= Quot(box[2], TileSize) /\ c[2] < Quot(box[4] + TileSize, TileSize) }

\* C19 (Grid axis consistency): the cells that Rectangle.invalidate clears
\* for a newly created rectangle or layer are the cells from which Display
\* derives the tile origins of the object's tile range: every cell of that
\* range is dirty after the creation, and every cell the creation has
\* cleared belongs to that range, on square and non-square displays.
C19_GridAxisConsistency ==
    [][ (lastOp' \in {"NewRectangle", "NewLayer"}) =>
          \A c \in Cells :
             /\ (c \in CellsOfBox(AbsBox(objs', lastObj'))) => ~cleanTiles'[c[1]][c[2]]
             /\ (cleanTiles[c[1]][c[2]] /\ ~cleanTiles'[c[1]][c[2]])
                   => c \in CellsOfBox(AbsBox(objs', lastObj')) ]_vars

\* The pixels of the box <<x1, y1, x2, y2>>
BoxPixels(b) == { <<x, y>> : x \in b[1] .. (b[3] - 1), y \in b[2] .. (b[4] - 1) }

\* The pixels of the boxes of a sequence
StripPixels(strips) == UNION { BoxPixels(strips[k]) : k \in DOMAIN strips }

\* The box of a rectangle
BoxOf(r) == <<r.x1, r.y1, r.x2, r.y2>>

\* The boxes overlap or touch
Touching(a, b) == ~(b[1] > a[3] \/ b[2] > a[4] \/ b[3] < a[1] \/ b[4] < a[2])

\* The grid after invalidate has been called with each box of strips in turn
RECURSIVE InvalidateAll(_, _, _, _, _)
InvalidateAll(ct, os, id, strips, k) ==
    IF k > Len(strips) THEN ct
    ELSE InvalidateAll(invalidate(ct, os, id, strips[k][1], strips[k][2],
                                  strips[k][3], strips[k][4]),
                       os, id, strips, k + 1)

\* C20 (Move strips): a Rectangle.Move step passes to invalidate the boxes
\* MoveStrips names, and (a) when the new box overlaps or touches the old one
\* these are at most four well-formed boxes whose pixel union is exactly the
\* symmetric difference of old and new: no pixel of the intersection is in a
\* strip, every pixel of exactly one box is in a strip; (b) when the boxes do
\* not overlap they are the old box and the new box.
C20_MoveStripsAreXor ==
    [][ (lastOp' = "Rectangle.Move") =>
          \E old \in {BoxOf(objs[lastObj'])}, new \in {BoxOf(objs'[lastObj'])} :
          \E strips \in {MoveStrips(objs[lastObj'], new[1], new[2], new[3], new[4])} :
             /\ cleanTiles' = InvalidateAll(cleanTiles, objs, lastObj', strips, 1)
             /\ Touching(old, new) =>
                   /\ Len(strips) <= 4
                   /\ \A k \in DOMAIN strips :
                         strips[k][1] <= strips[k][3] /\ strips[k][2] <= strips[k][4]
                   /\ StripPixels(strips) \cap (BoxPixels(old) \cap BoxPixels(new)) = {}
                   /\ StripPixels(strips)
                         = (BoxPixels(old) \ BoxPixels(new)) \cup (BoxPixels(new) \ BoxPixels(old))
             /\ ~Touching(old, new) => strips = <<old, new>> ]_vars

\* C20 witness: the rectangle <<1,1,5,5>> has been moved to <<3,3,7,5>>, a
\* box that overlaps it, sticks out to the right and is shorter at the top:
\* three strips were invalidated.
C20_Witness ==
    /\ lastOp = "Rectangle.Move" /\ lastObj = 2
    /\ BoxOf(objs[2]) = <<3, 3, 7, 5>>
    /\ moves = 1 /\ displays = 1
    /\ Len(MoveStrips([x1 |-> 1, y1 |-> 1, x2 |-> 5, y2 |-> 5], 3, 3, 7, 5)) = 3
    /\ \E c \in Cells : cleanTiles[c[1]][c[2]]

\* C21 (Layer.Move): a Layer.Move step calls invalidate with the layer's old
\* box first when the new origin differs from the old one, and then with
\* the boxes of Rectangle.Move; when the origin stays, only with the latter,
\* whose pixels are exactly those of old XOR new.  Afterwards the layer's
\* rectangle is (x, y, x+width, y+height) and nothing else of any object
\* has changed: the children keep their stored coordinates.
C21_LayerMove ==
    [][ (lastOp' = "Layer.Move") =>
          \E old \in {BoxOf(objs[lastObj'])}, new \in {BoxOf(objs'[lastObj'])} :
          \E strips \in {MoveStrips(objs[lastObj'], new[1], new[2], new[3], new[4])} :
             /\ (new[1] # old[1] \/ new[2] # old[2]) =>
                   cleanTiles' = InvalidateAll(cleanTiles, objs, lastObj', <<old>> \o strips, 1)
             /\ (new[1] = old[1] /\ new[2] = old[2]) =>
                   /\ cleanTiles' = InvalidateAll(cleanTiles, objs, lastObj', strips, 1)
                   /\ StripPixels(strips)
                         = (BoxPixels(old) \ BoxPixels(new)) \cup (BoxPixels(new) \ BoxPixels(old))
             /\ \E b \in LayerBoxes : new = <<b[1], b[2], b[1] + b[3], b[2] + b[4]>>
             /\ objs' = [objs EXCEPT ![lastObj'].x1 = new[1], ![lastObj'].y1 = new[2],
                                     ![lastObj'].x2 = new[3], ![lastObj'].y2 = new[4]] ]_vars

\* C21 witness: after a Display, the layer <<1,1,31,31>> that holds a
\* rectangle has been moved to the origin (2,1); a cell in the middle of its
\* old extent, which no strip of Rectangle.Move reaches, is dirty.
C21_Witness ==
    /\ lastOp = "Layer.Move" /\ lastObj = 2 /\ displays = 1
    /\ BoxOf(objs[2]) = <<2, 1, 32, 31>>
    /\ Len(objs) = 3 /\ objs[3].parent = 2 /\ BoxOf(objs[3]) = <<1, 1, 4, 4>>
    /\ ~cleanTiles[1][1] /\ ~cleanTiles[2][2]

\* Wu's algorithm of Line.paint run from one end of the line to the other in
\* the line's own coordinates: the set of the weights with which the pixel
\* (x, y) is painted (empty if it is not painted).
LineWeights(l, x, y) ==
    IF (l.x2 - l.x1) > Abs(l.y2 - l.y1)
    THEN IF x < l.x1 \/ x > l.x2 THEN {}
         ELSE LET yQ16 == (x - l.x1) * Quot((l.y2 - l.y1) * 65536, l.x2 - l.x1)
                  yy == l.y1 + (yQ16 \div 65536)
              IN IF y = yy THEN {255 - U8(yQ16 \div 256)}
                 ELSE IF y = yy + 1 THEN {U8(yQ16 \div 256)}
                 ELSE {}
    ELSE LET swap == l.y1 > l.y2
             ya == IF swap THEN l.y2 ELSE l.y1
             yb == IF swap THEN l.y1 ELSE l.y2
             xa == IF swap THEN l.x2 ELSE l.x1
             xb == IF swap THEN l.x1 ELSE l.x2
         IN IF y < ya \/ y > yb THEN {}
            ELSE LET xQ16 == (y - ya) * Quot((xb - xa) * 65536, yb - ya)
                     xx == xa + (xQ16 \div 65536)
                 IN IF x = xx THEN {255 - U8(xQ16 \div 256)}
                    ELSE IF x = xx + 1 THEN {U8(xQ16 \div 256)}
                    ELSE {}

\* The colour of the pixel (x, y) of one buffer of colour c that covers the
\* whole line, after the line has been painted into it
WholeLinePixel(l, x, y, c) ==
    IF LineWeights(l, x, y) = {} THEN c
    ELSE paintPixel(l, c, CHOOSE w \in LineWeights(l, x, y) : TRUE)

\* The pixel (x, y) of the display for a scene that is a diagonal line on the
\* black root layer, or a diagonal line in an opaque layer on it
LineScenePixel(os, x, y) ==
    IF os[2].kind = "line" THEN WholeLinePixel(os[2], x, y, os[RootId].color)
    ELSE IF InsideAbs(os, 2, x, y)
    THEN WholeLinePixel(os[3], x - os[2].x1, y - os[2].y1, os[2].color)
    ELSE os[RootId].color

\* The scene is a diagonal line on the root layer, or an opaque layer on the
\* root layer with a diagonal line in it
IsLineScene(os) ==
    \/ Len(os) = 2 /\ os[2].kind = "line"
    \/ Len(os) = 3 /\ os[2].kind = "layer" /\ os[3].kind = "line" /\ os[3].parent = 2

\* C22 (Line rasterization independent of the tile offset): when the first
\* Display has painted a diagonal line tile by tile, at the tile offsets the
\* grid and the line's layer give, every pixel of the grid has the colour it
\* has when the line is painted from end to end into one buffer: the pixels
\* painted and their weights depend on the endpoints and the pixel only.
C22_LineTileIndependent ==
    (lastOp = "Display" /\ displays = 1 /\ IsLineScene(objs)) =>
        \A c \in Cells : \A p \in TileIdx :
           Pixel(display, TileSize * c[1] + PX(p), TileSize * c[2] + PY(p))
              = LineScenePixel(objs, TileSize * c[1] + PX(p), TileSize * c[2] + PY(p))

\* C22 witness: the x-dominant rising line from (2,13) to (15,9) in the layer
\* at (3,-2) has been displayed; it crosses from the tile at (0,8) into the
\* tile at (8,8) and its pixel at the absolute position (8,10) is blended.
C22_Witness ==
    /\ lastOp = "Display" /\ displays = 1 /\ size = <<16, 16>>
    /\ Len(objs) = 3 /\ objs[2].kind = "layer" /\ objs[2].x1 = 3 /\ objs[2].y1 = -2
    /\ objs[3].kind = "line" /\ objs[3].parent = 2 /\ objs[3].color = White
    /\ <<objs[3].x1, objs[3].y1, objs[3].x2, objs[3].y2>> = <<2, 13, 15, 9>>
    /\ Pixel(display, 7, 10) \notin {Grey, White, Black}
    /\ Pixel(display, 8, 10) \notin {Grey, White, Black}

\* The subtile of Layer.paint of layer l just after its background is filled
Backdrop(l) == [p \in TileIdx |-> l.color]

\* The pixel p of the tile at (tileX, tileY) lies outside the box bb
OutsideBox(bb, tileX, tileY, p) ==
    ~ ( /\ tileX + PX(p) >= bb[1] /\ tileX + PX(p) < bb[3]
        /\ tileY + PY(p) >= bb[2] /\ tileY + PY(p) < bb[4] )

\* C23 (Line.paint stays inside the bounding box): for every line and every
\* tile of the grid for which its layer paints it, Line.paint on the layer's
\* subtile, which holds the layer's background colour, leaves every pixel
\* outside the line's boundingBox() as it was, in every channel.
C23_LinePaintInsideBox ==
    \A o \in DOMAIN objs : \A c \in Cells :
       (/\ objs[o].kind = "line"
        /\ ~SkipObject(boundingBox(objs[o]), LocalTile(objs, o, c)[1], LocalTile(objs, o, c)[2]))
          => \A p \in TileIdx :
                OutsideBox(boundingBox(objs[o]), LocalTile(objs, o, c)[1],
                           LocalTile(objs, o, c)[2], p)
                   => LinePaint(objs[o], Backdrop(objs[objs[o].parent]),
                                LocalTile(objs, o, c)[1], LocalTile(objs, o, c)[2])[p]
                         = objs[objs[o].parent].color

\* The pool with every pixel of every tile in it set to a colour no object has
StalePool(pool) ==
    [k \in 1 .. Len(pool) |-> [id |-> pool[k].id, px |-> [p \in TileIdx |-> <<1, 2, 3, 4>>]]]

\* C24 (Borrowed buffer fully overwritten): (a) the subtile Layer.paint takes
\* from the pool holds the layer's background colour in all
\* TileSize*TileSize pixels before the children are painted, whatever the
\* pool's tiles held; (b) a Display step leaves the same pixels on the
\* display and in Engine.tile as it does when every tile of the pool holds
\* other pixel values: nothing left in a pooled tile reaches them.
C24_ScratchOverwritten ==
    [][ (lastOp' = "Display") =>
          /\ \A l \in Layers : \A p \in TileIdx :
                LayerSubtile(objs[l], [t |-> tile, pool |-> StalePool(tilePool),
                                       nalloc |-> nalloc, log |-> <<>>]).t[p]
                   = objs[l].color
          /\ \E r \in {Display([Eng EXCEPT !.tilePool = StalePool(tilePool)], display, {})} :
                /\ display' = r.display
                /\ tile' = r.e.tile
                /\ calls' = r.calls ]_vars

\* C24 witness: a second Display has repainted tiles of a scene with a layer
\* in a layer, with two tiles in the pool that the first Display had used.
C24_Witness ==
    /\ lastOp = "Display" /\ displays = 2 /\ Len(calls) > 1
    /\ Len(tilePool) = 3
    /\ \E l \in Layers : objs[l].parent \notin {NilId, RootId}
    /\ \E k \in 1 .. Len(tilePool) : \E p, q \in TileIdx : tilePool[k].px[p] # tilePool[k].px[q]

\* The number of Layer.paint calls that are in progress at once, at most,
\* when layer id is painted for the tile at (tileX, tileY) of its parent's
\* coordinate system: the layer itself and the deepest chain of layers
\* among the children that Layer.paintObjects does not skip.
RECURSIVE PaintDepth(_, _, _, _)
PaintDepth(os, id, tileX, tileY) ==
    1 + Last({0} \cup
              { PaintDepth(os, os[id].objects[k], I16(tileX - os[id].x1), I16(tileY - os[id].y1)) :
                k \in { j \in DOMAIN os[id].objects :
                          /\ os[os[id].objects[j]].kind = "layer"
                          /\ ~SkipObject(boundingBox(os[os[id].objects[j]]),
                                         I16(tileX - os[id].x1), I16(tileY - os[id].y1)) } })

\* The getTile and putTile calls of the log from the k-th on are nested: every
\* putTile gives back the tile taken last among those not yet given back
\* (stack holds the tiles taken and not given back, the last one first), and
\* at the end no tile is held.
RECURSIVE NestedFrom(_, _, _)
NestedFrom(log, k, stack) ==
    IF k > Len(log) THEN stack = <<>>
    ELSE IF log[k][1] = "getTile"
    THEN NestedFrom(log, k + 1, <<log[k][2]>> \o stack)
    ELSE /\ stack # <<>>
         /\ stack[1] = log[k][2]
         /\ NestedFrom(log, k + 1, Tail(stack))

\* C25 (Pool balance): after every operation the free list holds every tile
\* ever allocated, each once, so none is borrowed; only Display changes the
\* pool; within Display the borrows and returns of every tile painted are
\* nested; and Display raises the number of tiles allocated to the largest
\* nesting depth of layers it paints, if that is larger, and otherwise
\* allocates nothing.
C25_PoolBalance ==
    [][ /\ Len(tilePool') = nalloc'
        /\ { tilePool'[k].id : k \in DOMAIN tilePool' } = 1 .. nalloc'
        /\ (lastOp' # "Display") => (tilePool' = tilePool /\ nalloc' = nalloc)
        /\ (lastOp' = "Display") =>
              /\ nalloc' = Last({nalloc} \cup { PaintDepth(objs, RootId, TileSize * c[1], TileSize * c[2]) :
                                                c \in DirtyCells })
              /\ \A c \in DirtyCells : NestedFrom(RootPaint(Eng, c[1], c[2]).log, 1, <<>>) ]_vars

\* C25 witness: a Display after a Layer.Move has repainted tiles of a scene
\* with a layer on the root layer; two tiles were allocated and both are in
\* the free list.
C25_Witness ==
    /\ lastOp = "Display" /\ lastMut = "Layer.Move" /\ displays = 2 /\ Len(calls) > 1
    /\ nalloc = 2 /\ Len(tilePool) = 2
    /\ \E c \in Cells : PaintDepth(objs, RootId, TileSize * c[1], TileSize * c[2]) = 2

\* The box bb = [x1,x2) x [y1,y2) has a pixel in the tile window
\* [tileX, tileX+TileSize) x [tileY, tileY+TileSize)
SharesPixel(bb, tileX, tileY) ==
    /\ bb[1] < bb[3] /\ bb[2] < bb[4]
    /\ bb[1] < tileX + TileSize /\ bb[3] > tileX
    /\ bb[2] < tileY + TileSize /\ bb[4] > tileY

\* C26 (Child-skip test): for every object and every tile of the grid, the
\* object's layer paints it (does not skip it) if and only if its bounding
\* box shares at least one pixel with the tile window in the layer's
\* coordinates; boxes that only touch the window on any side are skipped.
C26_SkipTestHalfOpen ==
    \A o \in DOMAIN objs \ {RootId} : \A c \in Cells :
       ~SkipObject(boundingBox(objs[o]), LocalTile(objs, o, c)[1], LocalTile(objs, o, c)[2])
          <=> SharesPixel(boundingBox(objs[o]), LocalTile(objs, o, c)[1], LocalTile(objs, o, c)[2])

\* The scene is a layer on the root layer, alone or with one opaque rectangle
\* in it
IsCompositeScene(os) ==
    \/ Len(os) = 2 /\ os[2].kind = "layer"
    \/ /\ Len(os) = 3 /\ os[2].kind = "layer"
       /\ os[3].kind = "rect" /\ os[3].parent = 2 /\ os[3].color[4] = 255

\* The pixel of the scratch tile of layer 2 at the absolute position (x, y):
\* the rectangle's colour where the rectangle is, else the layer's background
ScratchPixel(os, x, y) ==
    IF Len(os) = 3 /\ InsideAbs(os, 3, x, y) THEN os[3].color ELSE os[2].color

\* C27 (Layer compositing): when the first Display has painted a layer on
\* the root layer, every pixel of the grid outside the layer's bounds has the
\* root's colour; inside them it is the scratch pixel when the layer's
\* background alpha is 255 and Blend(root's colour, scratch pixel) otherwise;
\* where the opaque rectangle of a translucent layer is, that is the
\* rectangle's colour, unblended.
C27_LayerCompositing ==
    (lastOp = "Display" /\ displays = 1 /\ IsCompositeScene(objs)) =>
        \A c \in Cells : \A p \in TileIdx :
           \E x \in {TileSize * c[1] + PX(p)}, y \in {TileSize * c[2] + PY(p)} :
              /\ ~InsideAbs(objs, 2, x, y) => Pixel(display, x, y) = objs[RootId].color
              /\ (InsideAbs(objs, 2, x, y) /\ objs[2].color[4] = 255)
                    => Pixel(display, x, y) = ScratchPixel(objs, x, y)
              /\ (InsideAbs(objs, 2, x, y) /\ objs[2].color[4] # 255)
                    => Pixel(display, x, y) = Blend(objs[RootId].color, ScratchPixel(objs, x, y))
              /\ (InsideAbs(objs, 2, x, y) /\ Len(objs) = 3 /\ InsideAbs(objs, 3, x, y))
                    => Pixel(display, x, y) = objs[3].color

\* C27 witness: a translucent layer with an opaque rectangle on the grey root
\* has been displayed: one pixel shows the rectangle's colour, another the
\* blend of the root's and the layer's colour.
C27_Witness ==
    /\ lastOp = "Display" /\ displays = 1 /\ IsCompositeScene(objs)
    /\ Len(objs) = 3 /\ objs[2].color = TransRed /\ objs[RootId].color = Grey
    /\ \E c \in Cells : \E p \in TileIdx :
          Pixel(display, TileSize * c[1] + PX(p), TileSize * c[2] + PY(p)) = Yellow
    /\ \E c \in Cells : \E p \in TileIdx :
          /\ InsideAbs(objs, 2, TileSize * c[1] + PX(p), TileSize * c[2] + PY(p))
          /\ Pixel(display, TileSize * c[1] + PX(p), TileSize * c[2] + PY(p))
                = Blend(Grey, TransRed)
          /\ Blend(Grey, TransRed) \notin {Grey, TransRed}

\* The pixel (x, y) lies in the rectangle of a FillRectangleWithBuffer call
\* of the sequence of calls cs
WrittenBy(cs, x, y) ==
    \E k \in DOMAIN cs :
       /\ cs[k][1] = "FillRectangleWithBuffer"
       /\ x >= cs[k][2] /\ x < cs[k][2] + cs[k][4]
       /\ y >= cs[k][3] /\ y < cs[k][3] + cs[k][5]

\* C28 (Full display coverage): after the first Display on a fresh engine
\* every pixel of the display, those of a partial last tile column and row
\* included, lies in a rectangle that Display has written and no longer has
\* the value the Displayer started with.
C28_FullDisplayCoverage ==
    (lastOp = "Display" /\ displays = 1) =>
        \A x \in 0 .. (size[1] - 1), y \in 0 .. (size[2] - 1) :
           /\ WrittenBy(calls, x, y)
           /\ Pixel(display, x, y) # ZeroColor

\* C29 (Tile writes fit the display): every FillRectangleWithBuffer call a
\* Display step issues has width and height TileSize and a rectangle that
\* lies within the display, and the buffer Display passes for a tile has
\* TileSize*TileSize entries, which is the length the Displayer expects.
C29_TileWritesFit ==
    [][ (lastOp' = "Display") =>
          /\ \A k \in DOMAIN calls' :
                (calls'[k][1] = "FillRectangleWithBuffer") =>
                   /\ calls'[k][4] = TileSize /\ calls'[k][5] = TileSize
                   /\ calls'[k][2] >= 0 /\ calls'[k][2] + calls'[k][4] <= size[1]
                   /\ calls'[k][3] >= 0 /\ calls'[k][3] + calls'[k][5] <= size[2]
          /\ \A c \in DirtyCells :
                \E r \in {RootPaint(Eng, c[1], c[2])} :
                   /\ Cardinality(DOMAIN r.t) = TileSize * TileSize
                   /\ ~BufferSizeMismatch(TileSize, TileSize, r.t)
          /\ Cardinality(DOMAIN tile') = TileSize * TileSize ]_vars

\* C29 witness: the first Display on the 34 x 9 display has written its last
\* tile at (24, 0), which ends at column 31 and row 7.
C29_Witness ==
    /\ lastOp = "Display" /\ displays = 1 /\ size = <<34, 9>>
    /\ Len(calls) = 5
    /\ calls[4] = <<"FillRectangleWithBuffer", 24, 0, TileSize, TileSize>>
    /\ Pixel(display, 31, 7) # ZeroColor

\* The linear sum Blend passes to encodeGamma for channel ch
BlendSum(bottom, top, ch) ==
    Quot(decodeGamma(bottom[ch]) * (255 - top[4]), 255) + decodeGamma(top[ch])

\* C30 (Blend never wraps a channel): for an opaque bottom and a top whose
\* colour channels are each at most its alpha, the linear sum of every
\* channel is at most 255*255; for every linear value up to 255*255 the value
\* encodeGamma computes is at most 255, so that its conversion to uint8
\* returns it unchanged; and for a top that ApplyAlpha produces from an opaque
\* colour, whose channels may exceed its alpha and whose sum may exceed
\* 255*255, the value encodeGamma computes is still at most 255.
C30_BlendNeverWraps ==
    /\ (codec.op = "encodeGamma") =>
          /\ codec.in[1] <= 255 * 255
          /\ encodeGammaWide(codec.in[1]) <= 255
          /\ codec.out[1] = encodeGammaWide(codec.in[1])
    /\ (codec.op = "Blend" /\ codec.in[1][4] = 255
        /\ \A ch \in 1 .. 3 : codec.in[2][ch] <= codec.in[2][4]) =>
          \A ch \in 1 .. 3 :
             /\ BlendSum(codec.in[1], codec.in[2], ch) <= 255 * 255
             /\ encodeGammaWide(BlendSum(codec.in[1], codec.in[2], ch)) <= 255
             /\ codec.out[1][ch] = encodeGammaWide(BlendSum(codec.in[1], codec.in[2], ch))
    /\ (codec.op = "paintPixel" /\ codec.in[1][4] = 255 /\ codec.in[2][4] = 255) =>
          \A ch \in 1 .. 3 :
             /\ encodeGammaWide(BlendSum(codec.in[1], codec.out[1], ch)) <= 255
             /\ codec.out[2][ch] = encodeGammaWide(BlendSum(codec.in[1], codec.out[1], ch))

\* C30 witness: ApplyAlpha of opaque white with weight 1 is (15,15,15,0),
\* its channels above its alpha; blended over the bottom (255,128,0) the red
\* channel's sum is 255*255 + 15*15 = 65250 and the result is 255.
C30_Witness ==
    /\ codec.op = "paintPixel"
    /\ codec.in = << OpaqueBottom, White, 1 >>
    /\ codec.out[1] = <<15, 15, 15, 0>>
    /\ BlendSum(codec.in[1], codec.out[1], 1) = 65250
    /\ codec.out[2][1] = 255

\* C30 as stated: the tops ApplyAlpha produces from an opaque colour have
\* channels at most their alpha, and their linear sums over an opaque bottom
\* are at most 255*255.
C30_AsStated ==
    (codec.op = "paintPixel" /\ codec.in[1][4] = 255 /\ codec.in[2][4] = 255) =>
       \A ch \in 1 .. 3 :
          /\ codec.out[1][ch] <= codec.out[1][4]
          /\ BlendSum(codec.in[1], codec.out[1], ch) <= 255 * 255
          /\ encodeGammaWide(BlendSum(codec.in[1], codec.out[1], ch)) <= 255

====
